---- MODULE Spec2Model ----
(***************************************************************************)
(* Split virtqueue engine of hw/dataplane/vring.c: vring_setup,            *)
(* vring_teardown, the notification toggles, vring_should_notify,          *)
(* get_indirect, vring_pop and vring_push, over a guest memory holding the *)
(* descriptor table, the available ring, the used ring and an area of      *)
(* indirect tables.                                                        *)
(***************************************************************************)
EXTENDS Integers, Sequences, FiniteSets, TLC

(***************************************************************************)
(* Bounds of the model.                                                    *)
(***************************************************************************)
\* the queue size handed to vring_init by vring_setup
QueueNum == 2
\* descriptor-sized cells of guest memory that hold indirect tables
MemCells == 3
\* requests the guest publishes in one run of the ring specifications
MaxAvail == 4
\* completions the backend pushes in one run of the ring specifications
MaxUsed == 4
\* device-specific feature bits (below the ring's) a guest negotiates
DeviceFeatures == 4

(***************************************************************************)
(* Program constants.  The ring ABI values are those of the virtio ring    *)
(* header the file includes; errno values are those of the host.           *)
(***************************************************************************)
VRING_DESC_F_NEXT == 1
VRING_DESC_F_WRITE == 2
VRING_DESC_F_INDIRECT == 4
VRING_USED_F_NO_NOTIFY == 1
VRING_AVAIL_F_NO_INTERRUPT == 1
VIRTIO_RING_F_EVENT_IDX == 29
VIRTIO_F_NOTIFY_ON_EMPTY == 24
USHRT_MAX == 65535
EFAULT == 14
EAGAIN == 11
ENOBUFS == 105
\* sizeof(struct vring_desc)
SizeofDesc == 16

\* uint16_t arithmetic
U16(x) == x % 65536

\* 1 << n
RECURSIVE Shl1(_)
Shl1(n) == IF n = 0 THEN 1 ELSE 2 * Shl1(n - 1)

\* a & b on non-negative integers
RECURSIVE BitAnd(_, _)
BitAnd(a, b) ==
  IF a = 0 \/ b = 0 THEN 0
  ELSE (IF a % 2 = 1 /\ b % 2 = 1 THEN 1 ELSE 0) + 2 * BitAnd(a \div 2, b \div 2)

\* mutant: the store of a zero in place of a & ~b
BitClearAll(a, b) == 0

\* a | b and a & ~b for a single-bit mask b
BitOr(a, b) == a + b - BitAnd(a, b)
BitClear(a, b) == a - BitAnd(a, b)

\* C truth value of (flags & mask)
Has(flags, mask) == BitAnd(flags, mask) # 0

(***************************************************************************)
(* Guest memory layout.  Guest RAM is [0, RamSize); its last MemCells      *)
(* descriptor-sized cells hold the indirect tables, data buffers lie       *)
(* below and read as zeroes.                                               *)
(***************************************************************************)
BufLen == 512
TblBase == 4096
RamSize == TblBase + SizeofDesc * MemCells
\* a guest-physical address outside guest RAM
BadAddr == 65536
\* the data buffer the guest uses with descriptor i
BufAddr(i) == BufLen * i
\* host virtual address at which guest RAM is mapped
HostBase == 1048576

Cells == 0 .. (MemCells - 1)

Desc(a, l, f, n) == [addr |-> a, len |-> l, flags |-> f, next |-> n]
ZeroDesc == Desc(0, 0, 0, 0)

\* the struct vring_desc stored at guest address a
MemDesc(m, a) ==
  IF a >= TblBase /\ a < RamSize /\ (a - TblBase) % SizeofDesc = 0
  THEN m[(a - TblBase) \div SizeofDesc]
  ELSE ZeroDesc

\* hostmem_lookup: the host pointer of [a, a + l), NULL (0) when the range
\* is not inside guest RAM
hostmem_lookup(a, l) ==
  IF a + l <= RamSize THEN HostBase + a ELSE 0

(***************************************************************************)
(* The caller's iovec array: cap entries, NoSpan where nothing is written. *)
(***************************************************************************)
NoSpan == [base |-> 0, len |-> 0, set |-> FALSE]
Span(b, l) == [base |-> b, len |-> l, set |-> TRUE]
EmptyIov(cap) == [k \in 1 .. cap |-> NoSpan]
\* *out_num / *in_num before vring_pop assigns them
Unset == -1

(***************************************************************************)
(* get_indirect.  g is the loop state: found, the iov cursor p (0-based),  *)
(* the iovec array, the two counters and the accesses made so far.         *)
(***************************************************************************)
GIFail(g, why) ==
  [ret |-> -EFAULT, broken |-> TRUE, iov |-> g.iov, out |-> g.out, in |-> g.in,
   acc |-> g.acc, why |-> why]

\* mutant: the result of the translation is not tested
UnmappedNever(ptr) == FALSE

\* !desc_ptr, !iov->iov_base: hostmem_lookup returned NULL
Unmapped(ptr) == ptr = 0

\* mutant: an indirect entry inside a table is taken for a buffer
NestedNever(flags) == FALSE

\* desc.flags & VRING_DESC_F_INDIRECT inside a table: nested indirect
Nested(flags) == Has(flags, VRING_DESC_F_INDIRECT)

\* what one iteration of a do-while loop comes to: the return of the call
\* with result r, or the next iteration from loop state w
Return(r) == [more |-> FALSE, r |-> r]
Again(w) == [more |-> TRUE, w |-> w]

\* one iteration of the loop of get_indirect
GIIter(m, indirect, cap, g) ==
  LET a    == indirect.addr + g.found * SizeofDesc
      ptr  == hostmem_lookup(a, SizeofDesc)
      acc1 == Append(g.acc, <<"xlate", a, SizeofDesc>>)
      desc == MemDesc(m, a)
      acc2 == Append(acc1, <<"tbl", a>>)
      found == g.found + 1
      cnt  == indirect.len \div SizeofDesc
      base == hostmem_lookup(desc.addr, desc.len)
      acc3 == Append(acc2, <<"xlate", desc.addr, desc.len>>)
      iov1 == [g.iov EXCEPT ![g.p + 1] = Span(base, desc.len)]
      isw  == Has(desc.flags, VRING_DESC_F_WRITE)
      g1   == [found |-> found, p |-> g.p + 1, iov |-> iov1,
               out |-> IF isw THEN g.out ELSE g.out + 1,
               in  |-> IF isw THEN g.in + 1 ELSE g.in,
               acc |-> acc3]
  IN  IF Unmapped(ptr)
      THEN Return(GIFail([g EXCEPT !.acc = acc1], "map-indirect"))
      ELSE IF found > cnt
           THEN Return(GIFail([g EXCEPT !.acc = acc2], "indirect-loop"))
      ELSE IF Nested(desc.flags)
           THEN Return(GIFail([g EXCEPT !.acc = acc2], "nested"))
      ELSE IF g.p >= cap
           THEN Return([ret |-> -ENOBUFS, broken |-> FALSE, iov |-> g.iov,
                        out |-> g.out, in |-> g.in, acc |-> acc2,
                        why |-> "nobufs"])
      ELSE IF Unmapped(base)
           THEN Return(GIFail([g EXCEPT !.acc = acc3, !.iov[g.p + 1].base = 0,
                                        !.iov[g.p + 1].set = TRUE], "map-buffer"))
      ELSE IF ~isw /\ g.in # 0
           THEN Return(GIFail([g EXCEPT !.acc = acc3, !.iov = iov1],
                              "out-after-in"))
      ELSE IF Has(desc.flags, VRING_DESC_F_NEXT)
           THEN Again(g1)
      ELSE Return([ret |-> 0, broken |-> FALSE, iov |-> g1.iov, out |-> g1.out,
                   in |-> g1.in, acc |-> g1.acc, why |-> "ok"])

\* the loop of get_indirect: iterations until one returns
RECURSIVE GILoop(_, _, _, _)
GILoop(m, indirect, cap, g) ==
  LET s == GIIter(m, indirect, cap, g)
  IN  IF s.more THEN GILoop(m, indirect, cap, s.w) ELSE s.r

\* mutant: the length of the table is not checked
MisalignedNever(len) == FALSE

\* indirect->len % sizeof(desc): the table is not a whole number of entries
Misaligned(len) == len % SizeofDesc # 0

get_indirect(m, indirect, cap, g) ==
  IF Misaligned(indirect.len) THEN GIFail(g, "indirect-len")
  ELSE IF indirect.len \div SizeofDesc > USHRT_MAX + 1 THEN GIFail(g, "indirect-big")
  ELSE GILoop(m, indirect, cap, [g EXCEPT !.found = 0])

(***************************************************************************)
(* vring_pop.  V is what the call reads: the Vring fields, the guest       *)
(* features and the guest memory.  w is the state of the walk: the index   *)
(* i, found, the iov cursor p (0-based), the iovec array, the counters and *)
(* the accesses made so far.                                               *)
(***************************************************************************)
EventIdx(features) == Has(features, Shl1(VIRTIO_RING_F_EVENT_IDX))

PopRes(V, ret, brk, last, ev, w, why) ==
  [ret |-> ret, broken |-> brk, last_avail_idx |-> last, avail_event |-> ev,
   iov |-> w.iov, out_num |-> w.out, in_num |-> w.in, acc |-> w.acc, why |-> why]

\* mutant: a fatal return that forgets vring->broken = true
PopFailNotBroken(V, ev, w, why) ==
  PopRes(V, -EFAULT, FALSE, V.last_avail_idx, ev, w, why)

\* a fatal return of vring_pop: broken is set, -EFAULT returned
PopFail(V, ev, w, why) == PopRes(V, -EFAULT, TRUE, V.last_avail_idx, ev, w, why)

\* mutant: success that leaves last_avail_idx where it was
PopSuccessNoAdvance(V, head, ev, w) ==
  PopRes(V, head, FALSE, V.last_avail_idx, ev, w, "ok")

\* the success return: vring->last_avail_idx++, return head
PopSuccess(V, head, ev, w) ==
  PopRes(V, head, FALSE, U16(V.last_avail_idx + 1), ev, w, "ok")

\* mutant: the request is dropped when the caller's iovec array is full
PopNoBufsAdvance(V, ev, w) ==
  PopRes(V, -ENOBUFS, FALSE, U16(V.last_avail_idx + 1), ev, w, "nobufs")

\* the return when the caller's iovec array is full: -ENOBUFS, nothing committed
PopNoBufs(V, ev, w) ==
  PopRes(V, -ENOBUFS, FALSE, V.last_avail_idx, ev, w, "nobufs")

\* mutant: the loop check lets one more link through
LoopLimitLoose(found, n) == found > n + 1

\* if (++found > num): we've looped, as many links as the table has
\* descriptors were already walked
LoopLimit(found, n) == found > n

\* mutant: get_indirect handed the start of the caller's iovec array
IndirectStartFromZero(w) ==
  [found |-> 0, p |-> 0, iov |-> w.iov, out |-> w.out, in |-> w.in,
   acc |-> Append(w.acc, <<"desc", w.i>>)]

\* the loop state get_indirect starts from in the iteration of vring_pop
\* at walk state w
IndirectStart(w) ==
  [found |-> 0, p |-> w.p, iov |-> w.iov, out |-> w.out, in |-> w.in,
   acc |-> Append(w.acc, <<"desc", w.i>>)]

\* the rest of an iteration of vring_pop after get_indirect returned r for
\* the descriptor desc: its writes through iov[], out_num and in_num stay,
\* the cursor p and the index i are those of before the call
AfterIndirect(V, head, ev, w, desc, r) ==
  LET wi == [w EXCEPT !.found = w.found + 1, !.iov = r.iov, !.out = r.out,
                      !.in = r.in, !.acc = r.acc]
  IN  IF r.ret < 0
      THEN IF r.ret = -ENOBUFS THEN Return(PopNoBufs(V, ev, wi))
           ELSE Return(PopRes(V, r.ret, r.broken, V.last_avail_idx, ev, wi, r.why))
      ELSE IF Has(desc.flags, VRING_DESC_F_NEXT)
           THEN Again(wi)
           ELSE Return(PopSuccess(V, head, ev, wi))

\* one iteration of the loop
PopIter(V, head, cap, ev, w) ==
  LET found == w.found + 1
      desc  == V.desc[w.i]
      acc1  == Append(w.acc, <<"desc", w.i>>)
      r     == get_indirect(V.mem, desc, cap, IndirectStart(w))
      base  == hostmem_lookup(desc.addr, desc.len)
      acc2  == Append(acc1, <<"xlate", desc.addr, desc.len>>)
      iov1  == [w.iov EXCEPT ![w.p + 1] = Span(base, desc.len)]
      isw   == Has(desc.flags, VRING_DESC_F_WRITE)
      w1    == [i |-> desc.next, found |-> found, p |-> w.p + 1, iov |-> iov1,
                out |-> IF isw THEN w.out ELSE w.out + 1,
                in  |-> IF isw THEN w.in + 1 ELSE w.in,
                acc |-> acc2]
  IN  IF w.i >= V.num THEN Return(PopFail(V, ev, w, "desc-index"))
      ELSE IF LoopLimit(found, V.num) THEN Return(PopFail(V, ev, w, "loop"))
      ELSE IF Has(desc.flags, VRING_DESC_F_INDIRECT)
           THEN AfterIndirect(V, head, ev, w, desc, r)
      ELSE IF w.p >= cap
           THEN Return(PopNoBufs(V, ev, [w EXCEPT !.acc = acc1]))
      ELSE IF Unmapped(base)
           THEN Return(PopFail(V, ev, [w EXCEPT !.acc = acc2,
                                                !.iov[w.p + 1].base = 0,
                                                !.iov[w.p + 1].set = TRUE],
                               "map-buffer"))
      ELSE IF ~isw /\ w.in # 0
           THEN Return(PopFail(V, ev, [w EXCEPT !.acc = acc2, !.iov = iov1], "out-after-in"))
      ELSE IF Has(desc.flags, VRING_DESC_F_NEXT)
           THEN Again(w1)
           ELSE Return(PopSuccess(V, head, ev, w1))

\* the loop: iterations until one returns
RECURSIVE PopLoop(_, _, _, _, _)
PopLoop(V, head, cap, ev, w) ==
  LET s == PopIter(V, head, cap, ev, w)
  IN  IF s.more THEN PopLoop(V, head, cap, ev, s.w) ELSE s.r

\* mutant: the head taken as it comes off the ring
HeadOutsideNever(head, n) == FALSE

\* head >= num: the guest's number is silly
HeadOutside(head, n) == head >= n

\* the walk state before the first iteration: i = head, found = 0,
\* *out_num = *in_num = 0
WalkStart(head, cap, acc) ==
  [i |-> head, found |-> 0, p |-> 0, iov |-> EmptyIov(cap), out |-> 0,
   in |-> 0, acc |-> acc]

\* the walk of vring_pop from the head it read, with the avail.idx value
\* (idx2) it reads again for the avail-event field
PopWalk(V, head, idx2, cap, acc) ==
  LET ev == IF EventIdx(V.guest_features) THEN idx2 ELSE V.avail_event
  IN  PopLoop(V, head, cap, ev, WalkStart(head, cap, acc))

\* vring_pop from the head it read off the ring: the range check of the
\* head, then the walk
PopFromHead(V, head, idx2, cap, acc) ==
  IF HeadOutside(head, V.num)
  THEN PopFail(V, V.avail_event,
               [i |-> 0, found |-> 0, p |-> 0, iov |-> EmptyIov(cap),
                out |-> Unset, in |-> Unset, acc |-> acc], "head")
  ELSE PopWalk(V, head, idx2, cap, acc)

\* mutant: the distance taken without the 16-bit wraparound
ImplausibleSigned(avail, last, n) == avail - last > n

\* (uint16_t)(avail_idx - last_avail_idx) > num: the guest claims more
\* requests than the ring has slots
Implausible(avail, last, n) == U16(avail - last) > n

\* mutant: the test for an empty ring left out
AvailEmptyNever(avail, last) == FALSE

\* avail_idx == last_avail_idx: nothing new since last we looked
AvailEmpty(avail, last) == avail = last

vring_pop(V, cap) ==
  LET w0   == [i |-> 0, found |-> 0, p |-> 0, iov |-> EmptyIov(cap),
               out |-> Unset, in |-> Unset, acc |-> <<>>]
      last == V.last_avail_idx
      wa   == [w0 EXCEPT !.acc = <<<<"avail_idx">>>>]
      slot == last % V.num
      head == V.avail_ring[slot]
      wh   == [w0 EXCEPT !.acc = <<<<"avail_idx">>, <<"avail_ring", slot>>>>]
  IN  IF V.broken
      THEN PopRes(V, -EFAULT, TRUE, last, V.avail_event, w0, "broken")
      ELSE IF Implausible(V.avail_idx, last, V.num)
           THEN PopFail(V, V.avail_event, wa, "avail-idx")
      ELSE IF AvailEmpty(V.avail_idx, last)
           THEN PopRes(V, -EAGAIN, FALSE, last, V.avail_event, wa, "empty")
      ELSE PopFromHead(V, head, V.avail_idx, cap, wh.acc)

(***************************************************************************)
(* State.  The Vring fields and the device's guest_features; the guest     *)
(* memory (descriptor table, available ring with its used-event field,     *)
(* used ring with its avail-event field, indirect-table cells); mapped is  *)
(* the state of the ring mapping obtained through hostmem; res is the      *)
(* outcome of the last call as its caller sees it; published and popped    *)
(* record the heads the guest made available and those vring_pop returned. *)
(* For the specifications that take vring_pop and vring_push apart into    *)
(* their memory accesses: call is the position and the locals of the call  *)
(* in progress, sbuf the host's stores not yet visible to the guest, lbuf  *)
(* an avail-ring slot value the host CPU loaded ahead of the read, gst the *)
(* guest driver's position and locals, pushed the completions pushed.      *)
(***************************************************************************)
VARIABLES num, last_avail_idx, last_used_idx, signalled_used,
          signalled_used_valid, broken, mapped, guest_features,
          desc, mem, avail_flags, avail_idx, avail_ring, used_event,
          used_flags, used_idx, used_ring, avail_event,
          res, published, popped,
          call, sbuf, lbuf, gst, pushed

engine == <<num, last_avail_idx, last_used_idx, signalled_used,
            signalled_used_valid, broken, mapped>>
guestmem == <<desc, mem, avail_flags, avail_idx, avail_ring, used_event>>
hostmem == <<used_flags, used_idx, used_ring, avail_event>>
steps == <<call, sbuf, lbuf, gst, pushed>>
vars == <<engine, guest_features, guestmem, hostmem, res, published, popped,
          steps>>

Slots == 0 .. (QueueNum - 1)

\* what vring_pop reads
View ==
  [num |-> num, broken |-> broken, last_avail_idx |-> last_avail_idx,
   guest_features |-> guest_features, desc |-> desc, mem |-> mem,
   avail_idx |-> avail_idx, avail_ring |-> avail_ring,
   avail_event |-> avail_event]

NoRes == [op |-> "setup", ret |-> 1, cap |-> 0, iov |-> <<>>, out_num |-> Unset,
          in_num |-> Unset, acc |-> <<>>, why |-> "ok"]

\* iovec capacities a caller passes
Caps == 0 .. (QueueNum + MemCells - 1)

\* no call in progress
Idle == [pc |-> "idle", avail |-> 0, head |-> 0, cap |-> 0, len |-> 0, acc |-> <<>>]
\* no slot value loaded ahead
NoLoad == [slot |-> QueueNum, val |-> 0]

(***************************************************************************)
(* vring_pop as one step of the backend.                                   *)
(***************************************************************************)
\* the return of a vring_pop call with result r
PopReturn(r, cap) ==
  /\ broken' = r.broken
  /\ last_avail_idx' = r.last_avail_idx
  /\ avail_event' = r.avail_event
  /\ res' = [op |-> "pop", ret |-> r.ret, cap |-> cap, iov |-> r.iov,
             out_num |-> r.out_num, in_num |-> r.in_num, acc |-> r.acc,
             why |-> r.why]
  /\ popped' = IF r.ret >= 0 THEN Append(popped, r.ret) ELSE popped

Pop(cap) ==
  /\ UNCHANGED steps
  /\ broken \/ mapped
  /\ PopReturn(vring_pop(View, cap), cap)
  /\ UNCHANGED <<num, last_used_idx, signalled_used, signalled_used_valid, mapped,
                 guest_features, guestmem, used_flags, used_idx, used_ring,
                 published>>

(***************************************************************************)
(* The guest publishes a request with head h: it writes the ring slot,     *)
(* then advances avail.idx.  It never has more than num requests that the  *)
(* engine has not popped.                                                  *)
(***************************************************************************)
GuestRes == [NoRes EXCEPT !.op = "guest"]

GuestPublish(h) ==
  /\ UNCHANGED steps
  /\ Len(published) < MaxAvail
  /\ U16(avail_idx - last_avail_idx) < num
  /\ avail_ring' = [avail_ring EXCEPT ![avail_idx % num] = h]
  /\ avail_idx' = U16(avail_idx + 1)
  /\ published' = Append(published, h)
  /\ res' = GuestRes
  /\ UNCHANGED <<engine, guest_features, desc, mem, avail_flags, used_event,
                 hostmem, popped>>

(***************************************************************************)
(* vring_push                                                              *)
(***************************************************************************)
\* (int16_t)x
S16(x) == IF U16(x) >= 32768 THEN U16(x) - 65536 ELSE U16(x)

\* mutant: the new index computed from the used.idx the guest can write
PushedIdxFromRing(last) == U16(used_idx + 1)

\* mutant: the index kept in a type wider than 16 bits
PushedIdxWide(last) == last + 1

\* ++vring->last_used_idx
PushedIdx(last) == U16(last + 1)

\* mutant: the entry written at the slot of the new index
PushSlotNext(last, n) == (last + 1) % n

\* the used-ring slot vring_push writes
PushSlot(last, n) == last % n

\* mutant: vring_push without its test of broken
PushRefusedNever(b) == FALSE

\* if (vring->broken) return: don't touch the vring after a fatal error
PushRefused(b) == b

\* the values last_used_idx has where a run starts: fresh from vring_setup,
\* or two short of the 16-bit wrap
UsedStarts == {0, USHRT_MAX - 1}

\* mutant: the baseline test of vhost, in unsigned arithmetic
BaselineStaleUnsigned(new, signalled) == U16(new - signalled) < 1

\* (int16_t)(new - vring->signalled_used) < (uint16_t)1
BaselineStale(new, signalled) == S16(new - signalled) < 1

\* vring_push(vring, head, len)
vring_push(head, len) ==
  /\ broken \/ mapped
  /\ \E b \in UsedStarts : U16(last_used_idx - b) < MaxUsed
  /\ res' = [NoRes EXCEPT !.op = "push", !.ret = 0]
  /\ IF PushRefused(broken)
     THEN UNCHANGED <<used_ring, last_used_idx, used_idx, signalled_used_valid>>
     ELSE LET new == PushedIdx(last_used_idx)
          IN  /\ used_ring' = [used_ring EXCEPT ![PushSlot(last_used_idx, num)] =
                                  [id |-> head, len |-> len]]
              /\ last_used_idx' = new
              /\ used_idx' = new
              /\ signalled_used_valid' =
                   IF BaselineStale(new, signalled_used) THEN FALSE
                   ELSE signalled_used_valid
  /\ UNCHANGED <<num, last_avail_idx, signalled_used, broken, mapped,
                 guest_features, guestmem, used_flags, avail_event,
                 published, popped>>

\* vring_push as one step of the backend
Push(head, len) ==
  /\ UNCHANGED steps
  /\ vring_push(head, len)

(***************************************************************************)
(* vring_setup and vring_teardown.  ok is whether hostmem_lookup maps the  *)
(* ring region.                                                            *)
(***************************************************************************)
\* mutant: a setup that keeps the index of the previous use of the queue
SetupIdxKept(old) == old

\* vring->last_avail_idx = 0, vring->last_used_idx = 0
SetupIdx(old) == 0

\* mutant: a failed mapping that leaves broken as vring_setup first set it
SetupBrokenNever(ok) == FALSE

\* vring->broken = false, then vring->broken = true if (!vring_ptr)
SetupBroken(ok) == ~ok

Setup(ok) ==
  /\ UNCHANGED steps
  /\ IF ok
     THEN /\ broken' = FALSE /\ mapped' = TRUE
          /\ num' = QueueNum
          /\ last_avail_idx' = SetupIdx(last_avail_idx)
          /\ last_used_idx' = SetupIdx(last_used_idx)
          /\ signalled_used' = 0 /\ signalled_used_valid' = FALSE
          /\ popped' = <<>>
     ELSE /\ broken' = SetupBroken(ok) /\ mapped' = FALSE
          /\ UNCHANGED <<num, last_avail_idx, last_used_idx, signalled_used,
                         signalled_used_valid, popped>>
  /\ res' = [NoRes EXCEPT !.op = "setup", !.ret = IF ok THEN 1 ELSE 0]
  /\ UNCHANGED <<guest_features, guestmem, hostmem, published>>

Teardown ==
  /\ UNCHANGED steps
  /\ mapped
  /\ mapped' = FALSE
  /\ res' = [NoRes EXCEPT !.op = "teardown", !.ret = 0]
  /\ UNCHANGED <<num, last_avail_idx, last_used_idx, signalled_used,
                 signalled_used_valid, broken, guest_features, guestmem, hostmem,
                 published, popped>>

(***************************************************************************)
(* vring_pop and vring_push on a queue that is not broken and whose        *)
(* mapping vring_teardown released (or that was never set up): neither     *)
(* function tests for it.  The calls go through the pointers and the       *)
(* region table of the released mapping, which is undefined behaviour:     *)
(* the memory may still be there and the call act as before ("stale"),     *)
(* the first translation may fail ("unmapped"), or the call may fault and  *)
(* never return ("fault").                                                 *)
(***************************************************************************)
\* the index of the first translation among the accesses, 0 if none
FirstXlate(acc) ==
  IF \E j \in 1 .. Len(acc) : acc[j][1] = "xlate"
  THEN CHOOSE j \in 1 .. Len(acc) :
         /\ acc[j][1] = "xlate"
         /\ \A i \in 1 .. (j - 1) : acc[i][1] # "xlate"
  ELSE 0

\* vring_pop when its first hostmem_lookup, if it makes one, returns NULL
PopUnmapped(V, cap) ==
  LET r == vring_pop(V, cap)
      j == FirstXlate(r.acc)
  IN  IF j = 0 THEN r
      ELSE [ret |-> -EFAULT, broken |-> TRUE, last_avail_idx |-> V.last_avail_idx,
            avail_event |-> r.avail_event, iov |-> EmptyIov(cap), out_num |-> 0,
            in_num |-> 0, acc |-> SubSeq(r.acc, 1, j), why |-> "released"]

\* the call faulted: it returns nothing
Fault(op) == [NoRes EXCEPT !.op = op, !.ret = Unset, !.why = "fault"]

PopReleased(cap) ==
  /\ UNCHANGED steps
  /\ ~broken /\ ~mapped
  /\ \/ PopReturn(vring_pop(View, cap), cap)
     \/ PopReturn(PopUnmapped(View, cap), cap)
     \/ /\ res' = [Fault("pop") EXCEPT !.acc = <<<<"avail_idx">>>>]
        /\ UNCHANGED <<broken, last_avail_idx, avail_event, popped>>
  /\ UNCHANGED <<num, last_used_idx, signalled_used, signalled_used_valid, mapped,
                 guest_features, guestmem, used_flags, used_idx, used_ring,
                 published>>

PushReleased(head, len) ==
  /\ UNCHANGED steps
  /\ ~broken /\ ~mapped
  /\ last_used_idx < MaxUsed
  /\ \/ LET new == PushedIdx(last_used_idx)
        IN  /\ used_ring' = [used_ring EXCEPT ![PushSlot(last_used_idx, num)] =
                                [id |-> head, len |-> len]]
            /\ last_used_idx' = new
            /\ used_idx' = new
            /\ signalled_used_valid' =
                 IF S16(new - signalled_used) < 1 THEN FALSE
                 ELSE signalled_used_valid
            /\ res' = [NoRes EXCEPT !.op = "push", !.ret = 0,
                                    !.acc = <<<<"used_ring">>, <<"used_idx">>>>]
     \/ /\ res' = [Fault("push") EXCEPT !.acc = <<<<"used_ring">>>>]
        /\ UNCHANGED <<used_ring, last_used_idx, used_idx, signalled_used_valid>>
  /\ UNCHANGED <<num, last_avail_idx, signalled_used, broken, mapped,
                 guest_features, guestmem, used_flags, avail_event,
                 published, popped>>

(***************************************************************************)
(* The notification controller.                                            *)
(***************************************************************************)
\* vring_more_avail
vring_more_avail == avail_idx # last_avail_idx

\* vring_need_event
vring_need_event(event, new, old) == U16(new - event - 1) < U16(new - old)

\* mutant: the result says whether there are more requests
EnableResultMore(more) == more

\* return !vring_more_avail(vring): true if the vring is empty
EnableResult(more) == ~more

DisableNotification ==
  /\ UNCHANGED steps
  /\ mapped
  /\ used_flags' = IF ~EventIdx(guest_features)
                   THEN BitOr(used_flags, VRING_USED_F_NO_NOTIFY)
                   ELSE used_flags
  /\ res' = [NoRes EXCEPT !.op = "disable", !.ret = 0]
  /\ UNCHANGED <<engine, guest_features, guestmem, used_idx, used_ring,
                 avail_event, published, popped>>

\* mutant: the event store made through vring_used_event, the guest's field
EnableIntoUsedEvent ==
  /\ UNCHANGED steps
  /\ mapped
  /\ IF EventIdx(guest_features)
     THEN used_event' = avail_idx /\ UNCHANGED used_flags
     ELSE used_flags' = BitClear(used_flags, VRING_USED_F_NO_NOTIFY)
          /\ UNCHANGED used_event
  /\ res' = [NoRes EXCEPT !.op = "enable",
                          !.ret = IF EnableResult(vring_more_avail) THEN 1 ELSE 0]
  /\ UNCHANGED <<engine, guest_features, desc, mem, avail_flags, avail_idx,
                 avail_ring, used_idx, used_ring, avail_event, published,
                 popped>>

EnableNotification ==
  /\ UNCHANGED steps
  /\ mapped
  /\ IF EventIdx(guest_features)
     THEN avail_event' = avail_idx /\ UNCHANGED used_flags
     ELSE used_flags' = BitClear(used_flags, VRING_USED_F_NO_NOTIFY)
          /\ UNCHANGED avail_event
  /\ res' = [NoRes EXCEPT !.op = "enable",
                          !.ret = IF EnableResult(vring_more_avail) THEN 1 ELSE 0]
  /\ UNCHANGED <<engine, guest_features, guestmem, used_idx, used_ring,
                 published, popped>>

\* vring_should_notify(vdev, vring)
vring_should_notify ==
  /\ mapped
  /\ IF Has(guest_features, VIRTIO_F_NOTIFY_ON_EMPTY) /\ avail_idx = last_avail_idx
     THEN /\ res' = [NoRes EXCEPT !.op = "should_notify", !.ret = 1]
          /\ UNCHANGED <<signalled_used, signalled_used_valid>>
     ELSE IF ~Has(guest_features, VIRTIO_RING_F_EVENT_IDX)
     THEN /\ res' = [NoRes EXCEPT !.op = "should_notify",
                       !.ret = IF ~Has(avail_flags, VRING_AVAIL_F_NO_INTERRUPT)
                               THEN 1 ELSE 0]
          /\ UNCHANGED <<signalled_used, signalled_used_valid>>
     ELSE /\ signalled_used' = last_used_idx
          /\ signalled_used_valid' = TRUE
          /\ res' = [NoRes EXCEPT !.op = "should_notify",
                       !.ret = IF ~signalled_used_valid THEN 1
                               ELSE IF vring_need_event(used_event, last_used_idx,
                                                        signalled_used)
                                    THEN 1 ELSE 0]
  /\ UNCHANGED <<num, last_avail_idx, last_used_idx, broken, mapped,
                 guest_features, guestmem, hostmem, published, popped>>

\* vring_should_notify as one step of the backend
ShouldNotify ==
  /\ UNCHANGED steps
  /\ vring_should_notify

(***************************************************************************)
(* The state vring_setup leaves on success: the ring mapped, the indices   *)
(* zero, over a guest memory whose used ring is still zero.                *)
(***************************************************************************)
AfterSetup ==
  /\ num = QueueNum
  /\ last_avail_idx = 0 /\ last_used_idx = 0
  /\ signalled_used = 0 /\ signalled_used_valid = FALSE
  /\ broken = FALSE /\ mapped = TRUE
  /\ used_flags = 0 /\ used_idx = 0 /\ avail_event = 0
  /\ used_ring = [s \in Slots |-> [id |-> 0, len |-> 0]]
  /\ res = NoRes
  /\ popped = <<>>
  /\ call = Idle /\ sbuf = {} /\ lbuf = NoLoad
  /\ gst = [pc |-> "idle", h |-> 0, seen |-> 0, used |-> 0,
            got |-> [id |-> 0, len |-> 0]]
  /\ pushed = <<>>

(***************************************************************************)
(* Descriptors a guest may write: direct ones over its own data buffer or  *)
(* over an address outside RAM, with or without a link; indirect ones over *)
(* the table cells with a good, short, zero, misaligned or oversized       *)
(* length or over an address outside RAM.                                  *)
(***************************************************************************)
Links == {[f |-> 0, n |-> 0]} \cup
         {[f |-> VRING_DESC_F_NEXT, n |-> n] : n \in 0 .. QueueNum}

DirectChoices(i) ==
  {Desc(a, BufLen, w + l.f, l.n) :
     a \in {BufAddr(i), BadAddr}, w \in {0, VRING_DESC_F_WRITE}, l \in Links}

IndirectChoices(i) ==
  {Desc(TblBase, n * SizeofDesc, VRING_DESC_F_INDIRECT + f, (i + 1) % QueueNum) :
     n \in {1, MemCells}, f \in {0, VRING_DESC_F_NEXT}}
  \cup
  {Desc(al[1], al[2], VRING_DESC_F_INDIRECT, 0) :
     al \in {<<TblBase, 0>>, <<TblBase, SizeofDesc + 8>>,
             <<TblBase, SizeofDesc * (USHRT_MAX + 2)>>,
             <<BadAddr, SizeofDesc * MemCells>>}}

\* entries of an indirect table; cell k uses the data buffer after those of
\* the descriptor table
CellChoices(k) ==
  {Desc(BufAddr(QueueNum + k), BufLen, f, k + 1) :
     f \in {0, VRING_DESC_F_WRITE, VRING_DESC_F_NEXT,
            VRING_DESC_F_NEXT + VRING_DESC_F_WRITE, VRING_DESC_F_INDIRECT}}
  \cup {Desc(BadAddr, BufLen, 0, k + 1)}

HasIndirect(d) == \E i \in Slots : Has(d[i].flags, VRING_DESC_F_INDIRECT)

\* what a descriptor-table slot or a table cell off the chain holds
PlainDesc(i) == Desc(BufAddr(i), BufLen, 0, 0)

LinksTo(d, n) == Has(d.flags, VRING_DESC_F_NEXT) /\ d.next = n

\* descriptor tables as sequences of the slots i .. QueueNum - 1: slot i is
\* any descriptor, slot i + 1 is any descriptor when slot i links to it and
\* a plain one otherwise
RECURSIVE TableTails(_, _)
TableTails(i, free) ==
  IF i = QueueNum THEN {<<>>}
  ELSE IF ~free THEN {<<PlainDesc(i)>> \o t : t \in TableTails(i + 1, FALSE)}
  ELSE UNION {{<<d>> \o t : t \in TableTails(i + 1, LinksTo(d, i + 1))} :
                d \in DirectChoices(i) \cup IndirectChoices(i)}

DescTables == {[i \in Slots |-> t[i + 1]] : t \in TableTails(0, TRUE)}

\* the table cells likewise: cell k + 1 is any entry when cell k has NEXT
RECURSIVE CellTails(_, _)
CellTails(k, free) ==
  IF k = MemCells THEN {<<>>}
  ELSE IF ~free
       THEN {<<PlainDesc(QueueNum + k)>> \o t : t \in CellTails(k + 1, FALSE)}
  ELSE UNION {{<<d>> \o t :
                 t \in CellTails(k + 1, Has(d.flags, VRING_DESC_F_NEXT))} :
                d \in CellChoices(k)}

CellTables == {[k \in Cells |-> t[k + 1]] : t \in CellTails(0, TRUE)}

\* one request published at slot 0 with head 0, over any descriptor table
InitChain ==
  /\ AfterSetup
  /\ guest_features \in {0, Shl1(VIRTIO_RING_F_EVENT_IDX)}
  /\ desc \in DescTables
  /\ mem \in IF HasIndirect(desc) THEN CellTables
             ELSE {[k \in Cells |-> PlainDesc(QueueNum + k)]}
  /\ avail_flags = 0 /\ used_event = 0
  /\ avail_idx = 1
  /\ avail_ring = [s \in Slots |-> 0]
  /\ published = <<0>>

\* an empty ring, an implausible avail.idx, a head outside the table
InitRingCase ==
  /\ AfterSetup
  /\ guest_features \in {0, Shl1(VIRTIO_RING_F_EVENT_IDX)}
  /\ desc = [i \in Slots |-> PlainDesc(i)]
  /\ mem = [k \in Cells |-> PlainDesc(QueueNum + k)]
  /\ avail_flags = 0 /\ used_event = 0
  /\ \E c \in {<<0, 0>>, <<QueueNum + 1, 0>>, <<USHRT_MAX, 0>>, <<1, QueueNum>>} :
       /\ avail_idx = c[1]
       /\ avail_ring = [s \in Slots |-> c[2]]
       /\ published = IF c[1] = 1 THEN <<c[2]>> ELSE <<>>

(***************************************************************************)
(* SpecWalk: the chain walker.  The guest memory is drawn once, the        *)
(* backend calls vring_pop with any capacity, again and again.             *)
(***************************************************************************)
InitWalk == InitChain \/ InitRingCase
NextWalk == \E cap \in Caps : Pop(cap)
SpecWalk == InitWalk /\ [][NextWalk]_vars

(***************************************************************************)
(* SpecTable: one indirect descriptor at the head, over a table of         *)
(* 1 .. MemCells entries whose flags and next fields the guest writes as   *)
(* it likes (links forward, backward, to itself, outside the table).       *)
(***************************************************************************)
TableChoices(k) ==
  {Desc(BufAddr(QueueNum + k), BufLen, f, 0) :
     f \in {0, VRING_DESC_F_WRITE, VRING_DESC_F_INDIRECT}}
  \cup
  {Desc(BufAddr(QueueNum + k), BufLen, VRING_DESC_F_NEXT + w, n) :
     w \in {0, VRING_DESC_F_WRITE}, n \in 0 .. MemCells}

InitTable ==
  /\ AfterSetup
  /\ guest_features = 0
  /\ \E n \in 1 .. MemCells :
       desc = [i \in Slots |->
                 IF i = 0 THEN Desc(TblBase, n * SizeofDesc, VRING_DESC_F_INDIRECT, 0)
                 ELSE PlainDesc(i)]
  /\ mem \in [Cells -> UNION {TableChoices(k) : k \in Cells}]
  /\ \A k \in Cells : mem[k] \in TableChoices(k)
  /\ avail_flags = 0 /\ used_event = 0
  /\ avail_idx = 1
  /\ avail_ring = [s \in Slots |-> 0]
  /\ published = <<0>>

SpecTable == InitTable /\ [][NextWalk]_vars

(***************************************************************************)
(* SpecAvail: the available ring.  Over a descriptor table in which head h *)
(* starts a chain of num - h buffers, the guest publishes heads (also the  *)
(* invalid head num) and the backend pops with any capacity.               *)
(***************************************************************************)
LinearTable ==
  [i \in Slots |-> IF i < QueueNum - 1
                   THEN Desc(BufAddr(i), BufLen, VRING_DESC_F_NEXT, i + 1)
                   ELSE Desc(BufAddr(i), BufLen, VRING_DESC_F_WRITE, 0)]

InitAvail ==
  /\ AfterSetup
  /\ guest_features \in {0, Shl1(VIRTIO_RING_F_EVENT_IDX)}
  /\ desc = LinearTable
  /\ mem = [k \in Cells |-> PlainDesc(QueueNum + k)]
  /\ avail_flags = 0 /\ used_event = 0
  /\ avail_idx = 0
  /\ avail_ring = [s \in Slots |-> 0]
  /\ published = <<>>

NextAvail ==
  \/ \E h \in 0 .. QueueNum : GuestPublish(h)
  \/ \E cap \in Caps : Pop(cap)

SpecAvail == InitAvail /\ [][NextAvail]_vars

(***************************************************************************)
(* SpecWrap: the available ring where the 16-bit indices wrap.  The queue  *)
(* has popped and completed USHRT_MAX - 1 requests since its setup; the    *)
(* guest's avail.idx is behind, level with or ahead of last_avail_idx, by  *)
(* a plausible distance or not.  published and popped are the heads of     *)
(* the requests since then.                                                *)
(***************************************************************************)
InitWrap ==
  /\ num = QueueNum
  /\ last_avail_idx = USHRT_MAX - 1 /\ last_used_idx = USHRT_MAX - 1
  /\ signalled_used = USHRT_MAX - 1 /\ signalled_used_valid \in BOOLEAN
  /\ broken = FALSE /\ mapped = TRUE
  /\ used_flags = 0 /\ used_idx = USHRT_MAX - 1 /\ avail_event = 0
  /\ used_ring = [s \in Slots |-> [id |-> 0, len |-> 0]]
  /\ res = NoRes
  /\ popped = <<>> /\ published = <<>>
  /\ call = Idle /\ sbuf = {} /\ lbuf = NoLoad
  /\ gst = [pc |-> "idle", h |-> 0, seen |-> 0, used |-> 0,
            got |-> [id |-> 0, len |-> 0]]
  /\ pushed = <<>>
  /\ guest_features \in {0, Shl1(VIRTIO_RING_F_EVENT_IDX)}
  /\ desc = LinearTable
  /\ mem = [k \in Cells |-> PlainDesc(QueueNum + k)]
  /\ avail_flags = 0 /\ used_event = 0
  /\ avail_idx \in {U16(USHRT_MAX - 1 + d) : d \in {0, QueueNum + 1, USHRT_MAX}}
  /\ avail_ring = [s \in Slots |-> 0]

SpecWrap == InitWrap /\ [][NextAvail]_vars

(***************************************************************************)
(* SpecUsed: the used ring.  The backend pushes completions for any head   *)
(* with any length and asks whether to notify.                             *)
(***************************************************************************)
Lens == {0, BufLen}

InitUsed ==
  /\ AfterSetup
  /\ guest_features \in {0, Shl1(VIRTIO_RING_F_EVENT_IDX) + DeviceFeatures}
  /\ desc = LinearTable
  /\ mem = [k \in Cells |-> PlainDesc(QueueNum + k)]
  /\ avail_flags = 0 /\ used_event = 0
  /\ avail_idx = 0
  /\ avail_ring = [s \in Slots |-> 0]
  /\ published = <<>>

NextUsed ==
  \/ \E head \in Slots, len \in Lens : Push(head, len)
  \/ ShouldNotify

SpecUsed == InitUsed /\ [][NextUsed]_vars

(***************************************************************************)
(* SpecLife: the life cycle.  Setup (mapping the ring or failing to),      *)
(* teardown, and every operation of the engine, while the guest publishes  *)
(* valid and invalid heads.                                                *)
(***************************************************************************)
NextLife ==
  \/ \E ok \in BOOLEAN : Setup(ok)
  \/ Teardown
  \/ \E h \in {0, QueueNum} : GuestPublish(h)
  \/ Pop(QueueNum)
  \/ Push(0, BufLen)
  \/ DisableNotification
  \/ EnableNotification
  \/ ShouldNotify
  \/ PopReleased(QueueNum)
  \/ PushReleased(0, BufLen)

\* a Vring that vring_setup was never called on: its fields hold whatever
\* the memory held, nothing is mapped
InitFresh ==
  /\ num = QueueNum
  /\ last_avail_idx \in {0, USHRT_MAX} /\ last_used_idx \in {0, 1}
  /\ signalled_used = 0 /\ signalled_used_valid \in BOOLEAN
  /\ broken \in BOOLEAN /\ mapped = FALSE
  /\ used_flags = 0 /\ used_idx = 0 /\ avail_event = 0
  /\ used_ring = [s \in Slots |-> [id |-> 0, len |-> 0]]
  /\ res = NoRes
  /\ popped = <<>> /\ published = <<>>
  /\ call = Idle /\ sbuf = {} /\ lbuf = NoLoad
  /\ gst = [pc |-> "idle", h |-> 0, seen |-> 0, used |-> 0,
            got |-> [id |-> 0, len |-> 0]]
  /\ pushed = <<>>
  /\ guest_features = 0
  /\ desc = LinearTable
  /\ mem = [k \in Cells |-> PlainDesc(QueueNum + k)]
  /\ avail_flags = 0 /\ used_event = 0
  /\ avail_idx = 0
  /\ avail_ring = [s \in Slots |-> 0]

InitLife == InitAvail \/ InitFresh

SpecLife == InitLife /\ [][NextLife]_vars

(***************************************************************************)
(* vring_push and vring_pop taken apart into their accesses to the shared  *)
(* rings, for the ordering the two mb() calls are there for.  Between two  *)
(* fences the compiler and the CPU may reorder the host's accesses: a      *)
(* store of the host waits in sbuf and becomes visible to the guest at any *)
(* later moment, in any order (Drain); a load of the available-ring slot   *)
(* may be satisfied ahead of the instruction (Prefetch) and wait in lbuf.  *)
(* mb() is mfence: it completes when the earlier stores are visible, and   *)
(* no load is satisfied across it.                                         *)
(***************************************************************************)
\* mutant: a fence that does not wait for the earlier stores
FenceDoneAlways(sb) == TRUE

\* mb() in vring_push: the stores before it are visible
FenceDone(sb) == sb = {}

\* mutant: a fence that lets an earlier load of the slot stand
FenceLoadsKeep(lb) == lb

\* mb() in vring_pop: a slot value loaded before it is not used after it
FenceLoads(lb) == NoLoad

StepRes == [NoRes EXCEPT !.op = "step"]

\* vring_push up to its mb(): the broken test, the two stores of the entry
PushBegin(head, len) ==
  /\ call.pc = "idle"
  /\ broken \/ mapped
  /\ last_used_idx < MaxUsed
  /\ last_used_idx - gst.used < num
  /\ IF PushRefused(broken)
     THEN /\ res' = [NoRes EXCEPT !.op = "push", !.ret = 0]
          /\ UNCHANGED <<call, sbuf>>
     ELSE LET slot == PushSlot(last_used_idx, num)
          IN  /\ sbuf' = sbuf \cup {[f |-> "id", slot |-> slot, val |-> head],
                                    [f |-> "len", slot |-> slot, val |-> len]}
              /\ call' = [Idle EXCEPT !.pc = "push_fence", !.head = head,
                                      !.len = len]
              /\ res' = StepRes
  /\ UNCHANGED <<engine, guest_features, guestmem, hostmem, published, popped,
                 lbuf, gst, pushed>>

\* the mb() of vring_push
PushFence ==
  /\ call.pc = "push_fence"
  /\ FenceDone(sbuf)
  /\ call' = [call EXCEPT !.pc = "push_idx"]
  /\ res' = StepRes
  /\ UNCHANGED <<engine, guest_features, guestmem, hostmem, published, popped,
                 sbuf, lbuf, gst, pushed>>

\* new = vring->vr.used->idx = ++vring->last_used_idx, and the return
PushIdx ==
  /\ call.pc = "push_idx"
  /\ LET new == PushedIdx(last_used_idx)
     IN  /\ last_used_idx' = new
         /\ sbuf' = sbuf \cup {[f |-> "idx", slot |-> 0, val |-> new]}
         /\ signalled_used_valid' =
              IF BaselineStale(new, signalled_used) THEN FALSE
              ELSE signalled_used_valid
  /\ pushed' = Append(pushed, [id |-> call.head, len |-> call.len])
  /\ call' = Idle
  /\ res' = [NoRes EXCEPT !.op = "push", !.ret = 0]
  /\ UNCHANGED <<num, last_avail_idx, signalled_used, broken, mapped,
                 guest_features, guestmem, hostmem, published, popped,
                 lbuf, gst>>

\* a store of the host becomes visible to the guest
Drain ==
  \E w \in sbuf :
    /\ sbuf' = sbuf \ {w}
    /\ used_idx' = IF w.f = "idx" THEN w.val ELSE used_idx
    /\ used_ring' = IF w.f = "id"
                    THEN [used_ring EXCEPT ![w.slot].id = w.val]
                    ELSE IF w.f = "len"
                    THEN [used_ring EXCEPT ![w.slot].len = w.val]
                    ELSE used_ring
    /\ res' = StepRes
    /\ UNCHANGED <<engine, guest_features, guestmem, used_flags, avail_event,
                   published, popped, call, lbuf, gst, pushed>>

\* the guest driver reads used.idx
GuestReadUsedIdx ==
  /\ gst.seen # used_idx
  /\ gst' = [gst EXCEPT !.seen = used_idx]
  /\ res' = GuestRes
  /\ UNCHANGED <<engine, guest_features, guestmem, hostmem, published, popped,
                 call, sbuf, lbuf, pushed>>

\* the guest driver reads the next used entry below the index it has seen
GuestReadUsed ==
  /\ gst.used < gst.seen
  /\ gst' = [gst EXCEPT !.got = used_ring[gst.used % num],
                        !.used = gst.used + 1]
  /\ res' = GuestRes
  /\ UNCHANGED <<engine, guest_features, guestmem, hostmem, published, popped,
                 call, sbuf, lbuf, pushed>>

(***************************************************************************)
(* SpecPushSteps: the backend pushes completions step by step while its    *)
(* stores drain and the guest reads the used ring.                         *)
(***************************************************************************)
NextPushSteps ==
  \/ \E head \in Slots, len \in Lens : PushBegin(head, len)
  \/ PushFence
  \/ PushIdx
  \/ Drain
  \/ GuestReadUsedIdx
  \/ GuestReadUsed

SpecPushSteps == InitUsed /\ [][NextPushSteps]_vars

\* vring_pop up to its mb(): the broken test, the read of avail.idx, the
\* plausibility and the empty test
PopReadIdx(cap) ==
  /\ call.pc = "idle"
  /\ broken \/ mapped
  /\ LET r == vring_pop(View, cap)
     IN  IF r.why \in {"broken", "avail-idx", "empty"}
         THEN /\ PopReturn(r, cap)
              /\ UNCHANGED call
         ELSE /\ call' = [Idle EXCEPT !.pc = "pop_fence", !.avail = avail_idx,
                                      !.cap = cap, !.acc = <<<<"avail_idx">>>>]
              /\ res' = StepRes
              /\ UNCHANGED <<broken, last_avail_idx, avail_event, popped>>
  /\ UNCHANGED <<num, last_used_idx, signalled_used, signalled_used_valid, mapped,
                 guest_features, guestmem, used_flags, used_idx, used_ring,
                 published, sbuf, lbuf, gst, pushed>>

\* the mb() of vring_pop
PopFence ==
  /\ call.pc = "pop_fence"
  /\ lbuf' = FenceLoads(lbuf)
  /\ call' = [call EXCEPT !.pc = "pop_slot"]
  /\ res' = StepRes
  /\ UNCHANGED <<engine, guest_features, guestmem, hostmem, published, popped,
                 sbuf, gst, pushed>>

\* the host CPU loads the slot vring_pop will read, ahead of the read
Prefetch ==
  /\ mapped
  /\ call.pc \in {"idle", "pop_fence", "pop_slot"}
  /\ LET slot == last_avail_idx % num
         lb   == [slot |-> slot, val |-> avail_ring[slot]]
     IN  /\ lbuf # lb
         /\ lbuf' = lb
  /\ res' = StepRes
  /\ UNCHANGED <<engine, guest_features, guestmem, hostmem, published, popped,
                 call, sbuf, gst, pushed>>

\* head = vring->vr.avail->ring[last_avail_idx % num]
PopReadSlot ==
  /\ call.pc = "pop_slot"
  /\ LET slot == last_avail_idx % num
         head == IF lbuf.slot = slot THEN lbuf.val ELSE avail_ring[slot]
     IN  call' = [call EXCEPT !.pc = "pop_walk", !.head = head,
                              !.acc = Append(@, <<"avail_ring", slot>>)]
  /\ lbuf' = NoLoad
  /\ res' = StepRes
  /\ UNCHANGED <<engine, guest_features, guestmem, hostmem, published, popped,
                 sbuf, gst, pushed>>

\* the rest of vring_pop: the range check of head, the avail-event write
\* with avail.idx read again, the walk, the return
PopFinish ==
  /\ call.pc = "pop_walk"
  /\ PopReturn(PopFromHead(View, call.head, avail_idx, call.cap, call.acc),
               call.cap)
  /\ call' = Idle
  /\ UNCHANGED <<num, last_used_idx, signalled_used, signalled_used_valid, mapped,
                 guest_features, guestmem, used_flags, used_idx, used_ring,
                 published, sbuf, lbuf, gst, pushed>>

\* the guest driver writes the ring slot of its next request
GuestWriteSlot(h) ==
  /\ gst.pc = "idle"
  /\ Len(published) < MaxAvail
  /\ U16(avail_idx - last_avail_idx) < num
  /\ avail_ring' = [avail_ring EXCEPT ![avail_idx % num] = h]
  /\ gst' = [gst EXCEPT !.pc = "wrote", !.h = h]
  /\ res' = GuestRes
  /\ UNCHANGED <<engine, guest_features, desc, mem, avail_flags, avail_idx,
                 used_event, hostmem, published, popped, call, sbuf, lbuf,
                 pushed>>

\* after its write barrier, the guest driver advances avail.idx
GuestBumpIdx ==
  /\ gst.pc = "wrote"
  /\ avail_idx' = U16(avail_idx + 1)
  /\ published' = Append(published, gst.h)
  /\ gst' = [gst EXCEPT !.pc = "idle"]
  /\ res' = GuestRes
  /\ UNCHANGED <<engine, guest_features, desc, mem, avail_flags, avail_ring,
                 used_event, hostmem, popped, call, sbuf, lbuf, pushed>>

(***************************************************************************)
(* SpecPopSteps: the backend pops step by step while the guest publishes   *)
(* requests in two steps and the host CPU loads ring slots ahead.          *)
(***************************************************************************)
NextPopSteps ==
  \/ \E cap \in {0, QueueNum} : PopReadIdx(cap)
  \/ PopFence
  \/ Prefetch
  \/ PopReadSlot
  \/ PopFinish
  \/ \E h \in 0 .. QueueNum : GuestWriteSlot(h)
  \/ GuestBumpIdx

SpecPopSteps == InitAvail /\ [][NextPopSteps]_vars

(***************************************************************************)
(* What the claims say about a chain, stated over the guest memory alone.  *)
(***************************************************************************)
\* the descriptor indices linked from i; -1 ends a chain that leaves the
\* table or has more than fuel links
RECURSIVE Linked(_, _, _)
Linked(d, i, fuel) ==
  IF fuel = 0 \/ i >= QueueNum THEN <<-1>>
  ELSE IF Has(d[i].flags, VRING_DESC_F_NEXT)
       THEN <<i>> \o Linked(d, d[i].next, fuel - 1)
       ELSE <<i>>

IsWrite(x) == Has(x.flags, VRING_DESC_F_WRITE)
Translatable(x) == x.addr + x.len <= RamSize

\* a sequence of descriptors with the device-readable ones first
OutBeforeIn(xs) ==
  \A j, k \in 1 .. Len(xs) : j < k /\ IsWrite(xs[j]) => IsWrite(xs[k])

\* the spans a sequence of descriptors resolves to
SpansOf(xs) ==
  [k \in 1 .. Len(xs) |-> Span(hostmem_lookup(xs[k].addr, xs[k].len), xs[k].len)]

CountOf(xs, wr) == Cardinality({k \in 1 .. Len(xs) : IsWrite(xs[k]) = wr})

\* the head the next vring_pop reads, and its chain of direct links
NextHead == avail_ring[last_avail_idx % num]
HeadChain == Linked(desc, NextHead, num)
HeadDescs == [k \in 1 .. Len(HeadChain) |-> desc[HeadChain[k]]]

\* the ring holds a request vring_pop accepts as plausible
Pending ==
  /\ ~broken /\ mapped
  /\ avail_idx # last_avail_idx
  /\ U16(avail_idx - last_avail_idx) <= num
  /\ NextHead < num

\* its chain is a well-formed chain of direct descriptors
DirectChain ==
  /\ Pending
  /\ \A k \in 1 .. Len(HeadChain) :
       /\ HeadChain[k] # -1
       /\ ~Has(HeadDescs[k].flags, VRING_DESC_F_INDIRECT)
       /\ Translatable(HeadDescs[k])
  /\ OutBeforeIn(HeadDescs)

\* a step of the backend that is a call of vring_pop
PopStep == res'.op = "pop"

\* the first n entries of the caller's iovec array are xs, the others untouched
IovIs(iov, xs) ==
  /\ Len(iov) >= Len(xs)
  /\ \A k \in 1 .. Len(iov) : iov[k] = IF k <= Len(xs) THEN xs[k] ELSE NoSpan

(***************************************************************************)
(* C1: for a well-formed chain of 1..num direct descriptors and a caller   *)
(* with enough capacity, vring_pop returns the chain's head, one span per  *)
(* descriptor in chain order with the descriptor's length, out_num = the   *)
(* number of non-WRITE descriptors, in_num = the number of WRITE ones, and *)
(* last_avail_idx advanced by one.                                         *)
(***************************************************************************)
C1_DirectChainPopped ==
  [][ (PopStep /\ DirectChain /\ res'.cap >= Len(HeadChain)) =>
        /\ res'.ret = NextHead
        /\ IovIs(res'.iov, SpansOf(HeadDescs))
        /\ \A k \in 1 .. Len(HeadChain) : res'.iov[k].len = HeadDescs[k].len
        /\ res'.out_num = CountOf(HeadDescs, FALSE)
        /\ res'.in_num = CountOf(HeadDescs, TRUE)
        /\ last_avail_idx' = U16(last_avail_idx + 1)
        /\ ~broken' ]_vars

\* a chain of num direct descriptors, readable and writable, was popped
C1_Witness ==
  /\ res.op = "pop" /\ res.ret = 0 /\ res.why = "ok"
  /\ ~HasIndirect(desc)
  /\ res.out_num + res.in_num = QueueNum
  /\ res.out_num >= 1 /\ res.in_num >= 1
  /\ last_avail_idx = 1

(***************************************************************************)
(* C3: a vring_pop on a queue that is not broken which returns -EFAULT     *)
(* sets broken and leaves last_avail_idx unchanged; one that returns       *)
(* -EAGAIN or -ENOBUFS does not set broken.                                *)
(***************************************************************************)
C3_FatalSetsBroken ==
  [][ (PopStep /\ ~broken) =>
        /\ (res'.ret = -EFAULT => broken' /\ last_avail_idx' = last_avail_idx)
        /\ (res'.ret \in {-EAGAIN, -ENOBUFS} => ~broken') ]_vars

\* a fatal walk (not the refusal of a broken queue) was seen
C3_Witness ==
  /\ res.op = "pop" /\ res.ret = -EFAULT /\ broken
  /\ res.why \in {"loop", "out-after-in", "map-buffer"}

\* the entries of the table of indirect descriptor x linked from entry k;
\* BadEntry stands for an entry outside the table or RAM, or past fuel links
BadEntry == Desc(BadAddr, 0, VRING_DESC_F_INDIRECT, 0)

RECURSIVE TableEntries(_, _, _, _)
TableEntries(m, x, k, fuel) ==
  LET a == x.addr + k * SizeofDesc
      e == MemDesc(m, a)
  IN  IF fuel = 0 \/ k >= x.len \div SizeofDesc \/ a + SizeofDesc > RamSize
      THEN <<BadEntry>>
      ELSE IF Has(e.flags, VRING_DESC_F_NEXT)
           THEN <<e>> \o TableEntries(m, x, e.next, fuel - 1)
           ELSE <<e>>

\* the buffer descriptors of a chain: a direct descriptor stands for itself,
\* an indirect one for the entries of its table
RECURSIVE Flat(_, _)
Flat(m, xs) ==
  IF xs = <<>> THEN <<>>
  ELSE (IF Has(Head(xs).flags, VRING_DESC_F_INDIRECT)
        THEN TableEntries(m, Head(xs), 0, Head(xs).len \div SizeofDesc)
        ELSE <<Head(xs)>>) \o Flat(m, Tail(xs))

HeadFlat == Flat(mem, HeadDescs)

\* the pending chain is well formed: it ends inside the table, every
\* indirect table has a whole number of entries, every buffer descriptor is
\* a translatable non-indirect one, device-readable ones first
WellFormedChain ==
  /\ Pending
  /\ \A k \in 1 .. Len(HeadChain) :
       /\ HeadChain[k] # -1
       /\ Has(HeadDescs[k].flags, VRING_DESC_F_INDIRECT) =>
            /\ HeadDescs[k].len % SizeofDesc = 0
            /\ HeadDescs[k].len \div SizeofDesc <= USHRT_MAX + 1
  /\ \A k \in 1 .. Len(HeadFlat) :
       /\ ~Has(HeadFlat[k].flags, VRING_DESC_F_INDIRECT)
       /\ Translatable(HeadFlat[k])
  /\ OutBeforeIn(HeadFlat)

(***************************************************************************)
(* C5: a vring_pop of a well-formed chain that returns -ENOBUFS leaves     *)
(* last_avail_idx and broken alone, and a vring_pop called right after     *)
(* with capacity for the whole chain returns the same head and the         *)
(* complete span list.                                                     *)
(***************************************************************************)
C5_RetrySucceeds ==
  [][ (PopStep /\ WellFormedChain /\ res'.ret = -ENOBUFS) =>
        /\ last_avail_idx' = last_avail_idx
        /\ ~broken'
        /\ LET r == vring_pop(View', Len(HeadFlat))
           IN  /\ r.ret = NextHead
               /\ IovIs(r.iov, SpansOf(HeadFlat)) ]_vars

(***************************************************************************)
(* C6: a vring_pop that returns -ENOBUFS changes no field of the Vring and *)
(* nothing of what the engine writes in guest memory, with and without the *)
(* event-index feature.                                                    *)
(***************************************************************************)
C6_NoBufsMutatesNothing ==
  [][ (PopStep /\ res'.ret = -ENOBUFS) => UNCHANGED <<engine, hostmem>> ]_vars

(***************************************************************************)
(* C2: the heads vring_pop returns are, in order, the heads the guest      *)
(* published: the k-th successful pop since setup returns the head stored  *)
(* in avail.ring[(k - 1) mod num], none skipped, none twice, whatever      *)
(* Empty or NeedMoreCapacity results lie in between.                       *)
(***************************************************************************)
C2_Fifo ==
  /\ [](/\ Len(popped) <= Len(published)
        /\ popped = SubSeq(published, 1, Len(popped)))
  /\ [][ (PopStep /\ res'.ret >= 0) =>
           /\ res'.ret = avail_ring[Len(popped) % num]
           /\ popped' = Append(popped, res'.ret) ]_vars

\* the ring has wrapped: more than num heads were popped, after an Empty or
\* NeedMoreCapacity result
C2_Witness ==
  /\ Len(popped) > QueueNum
  /\ res.op = "pop" /\ res.ret \in {-EAGAIN, -ENOBUFS}
  /\ \E j, k \in 1 .. Len(popped) : popped[j] # popped[k]

PushStep == res'.op = "push"

C4_BrokenSticky ==
  [][ broken =>
        /\ ~broken' => res'.op = "setup" /\ res'.ret = 1
        /\ PopStep =>
             /\ res'.ret < 0
             /\ last_avail_idx' = last_avail_idx
             /\ UNCHANGED <<guestmem, hostmem>>
        /\ PushStep =>
             UNCHANGED <<used_ring, used_idx, last_used_idx, signalled_used_valid>>
    ]_vars

\* a push was made on a queue broken by a fatal pop, with a request pending
C4_Witness ==
  /\ broken /\ mapped
  /\ res.op = "push"
  /\ avail_idx # last_avail_idx
  /\ last_avail_idx > 0

(***************************************************************************)
(* C9 -- publication ordering of vring_push.  With push taken apart into   *)
(* the stores of the entry, the fence and the store of used.idx, and the   *)
(* guest reading concurrently: in every reachable state, whatever value k  *)
(* of used.idx the guest can observe, the used-ring entry of every         *)
(* completion below k that the guest has not yet taken holds the (head,    *)
(* len) pair that was pushed for it, and every entry the guest has read    *)
(* below an index it saw is the pair pushed for it.                        *)
(***************************************************************************)
C9_PublishedAfterEntry ==
  /\ used_idx <= Len(pushed)
  /\ \A j \in gst.used .. (used_idx - 1) : used_ring[j % num] = pushed[j + 1]
  /\ gst.used > 0 => gst.got = pushed[gst.used]

\* the guest sees completions it has not taken, one of them in a slot used
\* before, while the stores of the next entry are still on their way
C9_Witness ==
  /\ call.pc = "push_fence" /\ sbuf # {}
  /\ used_idx > QueueNum
  /\ gst.used < used_idx /\ gst.used > 0
  /\ pushed[used_idx] # pushed[used_idx - QueueNum]

(***************************************************************************)
(* C10 -- no stale slot.  With pop taken apart into the read of avail.idx, *)
(* the fence and the read of the ring slot, and the guest writing the slot *)
(* before it advances avail.idx: the head a pop reads after it saw         *)
(* avail.idx differ from last_avail_idx is the value the guest published   *)
(* for slot last_avail_idx mod num, never an older value of the slot.      *)
(***************************************************************************)
C10_NoStaleSlot ==
  [][(call.pc = "pop_slot" /\ call'.pc = "pop_walk")
       => /\ last_avail_idx < Len(published)
          /\ call'.head = published[last_avail_idx + 1]]_vars

\* a pop has read, after the fence, a slot the guest used before with
\* another head
C10_Witness ==
  /\ call.pc = "pop_walk"
  /\ last_avail_idx >= QueueNum
  /\ call.head # published[last_avail_idx + 1 - QueueNum]
  /\ call.head = published[last_avail_idx + 1]

\* the pending chain is a chain of direct descriptors whose links never end:
\* num links followed inside the table lead to a descriptor visited before
CyclicChain ==
  /\ Pending
  /\ Len(HeadChain) = num + 1
  /\ \A k \in 1 .. num :
       /\ HeadChain[k] # -1
       /\ ~Has(desc[HeadChain[k]].flags, VRING_DESC_F_INDIRECT)
  /\ desc[HeadChain[num]].next < num

\* a fatal return of the pop step: the error, broken set, nothing consumed
FatalPop ==
  /\ res'.ret = -EFAULT
  /\ broken'
  /\ last_avail_idx' = last_avail_idx
  /\ popped' = popped

(***************************************************************************)
(* C11 as stated: a chain of direct descriptors whose links lead back into *)
(* the visited set is rejected with a fatal error, broken set and          *)
(* last_avail_idx kept, for every capacity the caller supplies.            *)
(***************************************************************************)
C11_CycleFatalAnyCapacity ==
  [][ (PopStep /\ CyclicChain) => FatalPop ]_vars

(***************************************************************************)
(* C11 amended: a cyclic chain of direct descriptors is never accepted.    *)
(* With a capacity of at least num the pop is fatal: broken set,           *)
(* last_avail_idx kept, no request returned.  With a smaller capacity it   *)
(* is fatal in the same way or returns -ENOBUFS with broken clear and      *)
(* last_avail_idx kept.  A well-formed chain of exactly num distinct       *)
(* direct descriptors is accepted when the capacity is at least num.       *)
(***************************************************************************)
C11_CycleRejected ==
  [][ /\ (PopStep /\ CyclicChain) =>
           \/ FatalPop
           \/ /\ res'.cap < num
              /\ res'.ret = -ENOBUFS /\ ~broken'
              /\ last_avail_idx' = last_avail_idx /\ popped' = popped
      /\ (PopStep /\ DirectChain /\ Len(HeadChain) = num /\ res'.cap >= num) =>
           /\ res'.ret = NextHead /\ ~broken'
           /\ last_avail_idx' = U16(last_avail_idx + 1) ]_vars

\* the loop check has fired on a cyclic chain of direct descriptors popped
\* with a capacity of exactly num
C11_Witness ==
  /\ res.op = "pop" /\ res.why = "loop" /\ res.cap = QueueNum
  /\ broken /\ last_avail_idx = 0
  /\ ~HasIndirect(desc)
  /\ Len(Linked(desc, avail_ring[0], QueueNum)) = QueueNum + 1

\* the descriptors of the pending chain in link order, BadEntry where the
\* links leave the descriptor table or do not end within num links, and
\* its buffer descriptors with every indirect table followed by its links
ChainDescs ==
  [k \in 1 .. Len(HeadChain) |->
     IF HeadChain[k] = -1 THEN BadEntry ELSE desc[HeadChain[k]]]
ChainFlat == Flat(mem, ChainDescs)

\* a device-readable buffer descriptor after a device-writable one
OrderViolated(xs) ==
  \E j, k \in 1 .. Len(xs) :
    j < k /\ IsWrite(xs[j]) /\ ~IsWrite(xs[k]) /\ xs[k] # BadEntry

(***************************************************************************)
(* C12: when the pending chain holds a non-WRITE descriptor after a WRITE  *)
(* descriptor (both direct, both in one indirect table, or one direct and  *)
(* the other indirect), vring_pop returns the fatal error, sets broken,    *)
(* keeps last_avail_idx and reports no request.  Stated for a caller with  *)
(* capacity for every buffer descriptor of the chain.                      *)
(***************************************************************************)
C12_OrderViolationFatal ==
  [][ (PopStep /\ Pending /\ OrderViolated(ChainFlat)
         /\ res'.cap >= Len(ChainFlat)) => FatalPop ]_vars

(***************************************************************************)
(* C13: a vring_pop that reads an avail.idx whose distance from            *)
(* last_avail_idx, modulo 2^16, is greater than num is fatal and sets      *)
(* broken; right after a pop that is not fatal, the avail.idx it read and  *)
(* last_avail_idx differ by at most num, modulo 2^16.                      *)
(***************************************************************************)
C13_AvailIdxPlausible ==
  [][ (PopStep /\ ~broken) =>
        /\ (U16(avail_idx - last_avail_idx) > num) => FatalPop
        /\ (res'.ret # -EFAULT) => U16(avail_idx - last_avail_idx') <= num ]_vars

\* a pop has succeeded across the wrap of the indices: it read avail.idx 1
\* with last_avail_idx USHRT_MAX
C13_Witness ==
  /\ res.op = "pop" /\ res.ret >= 0
  /\ last_avail_idx = 0 /\ avail_idx = 1

\* an indirect descriptor whose table get_indirect refuses for its length
BadIndirect(x) ==
  /\ Has(x.flags, VRING_DESC_F_INDIRECT)
  /\ \/ x.len % SizeofDesc # 0
     \/ x.len \div SizeofDesc > USHRT_MAX + 1

\* the k-th descriptor of the pending chain is its first indirect one
FirstIndirectAt(k) ==
  /\ k \in 1 .. Len(HeadChain)
  /\ HeadChain[k] # -1
  /\ Has(desc[HeadChain[k]].flags, VRING_DESC_F_INDIRECT)
  /\ \A j \in 1 .. (k - 1) : ~Has(desc[HeadChain[j]].flags, VRING_DESC_F_INDIRECT)

\* an entry of an indirect table was translated or read
TableTouched(acc) ==
  \E j \in 1 .. Len(acc) :
    \/ acc[j][1] = "tbl"
    \/ acc[j][1] = "xlate" /\ acc[j][3] = SizeofDesc

(***************************************************************************)
(* C14: an indirect descriptor whose length is not a multiple of 16, or    *)
(* whose table would have more than 65536 entries, is rejected fatally     *)
(* (broken set) and no entry of its table is translated or read: the pop   *)
(* of a chain whose first indirect descriptor is such a one touches no     *)
(* table entry, and is fatal once the direct descriptors before it fit in  *)
(* the caller's array; at the head of the chain the length check itself    *)
(* is what rejects it.                                                     *)
(***************************************************************************)
C14_BadTableLength ==
  [][ (PopStep /\ Pending) =>
        \A k \in 1 .. Len(HeadChain) :
          (FirstIndirectAt(k) /\ BadIndirect(desc[HeadChain[k]])) =>
            /\ ~TableTouched(res'.acc)
            /\ (res'.cap >= k - 1) => FatalPop
            /\ (k = 1) => res'.why \in {"indirect-len", "indirect-big"} ]_vars

\* a chain of a direct descriptor and a misaligned indirect one was refused
\* for the length, after the buffer of the direct one was translated
C14_Witness ==
  /\ res.op = "pop" /\ res.why = "indirect-len" /\ broken
  /\ ~Has(desc[0].flags, VRING_DESC_F_INDIRECT)
  /\ \E j \in 1 .. Len(res.acc) : res.acc[j][1] = "xlate"

(***************************************************************************)
(* C15: indirect descriptors cannot nest.  When an entry the walk of an    *)
(* indirect table reads has the INDIRECT flag, vring_pop returns the fatal *)
(* error and sets broken; the read of that entry is the last access of the *)
(* call, and the entry's address is not translated.                        *)
(***************************************************************************)
C15_NoNesting ==
  [][ PopStep =>
        \A j \in 1 .. Len(res'.acc) :
          (/\ res'.acc[j][1] = "tbl"
           /\ Has(MemDesc(mem, res'.acc[j][2]).flags, VRING_DESC_F_INDIRECT)) =>
            /\ FatalPop
            /\ j = Len(res'.acc)
            /\ \A i \in 1 .. Len(res'.acc) :
                 res'.acc[i][1] = "xlate" =>
                   res'.acc[i][2] # MemDesc(mem, res'.acc[j][2]).addr ]_vars

\* the second entry of a table was found to be an indirect descriptor,
\* after the buffer of the first was translated
C15_Witness ==
  /\ res.op = "pop" /\ res.why = "nested" /\ broken
  /\ Has(mem[1].flags, VRING_DESC_F_INDIRECT)
  /\ res.acc[Len(res.acc)] = <<"tbl", TblBase + SizeofDesc>>

(***************************************************************************)
(* C16: when the translation of a buffer address of a direct descriptor,   *)
(* of a buffer address of a table entry, or of the address of a table      *)
(* entry fails while vring_pop walks a chain, the call returns the fatal   *)
(* error, sets broken and keeps last_avail_idx; the failed translation is  *)
(* its last access: nothing is read through the null result.  A head       *)
(* descriptor over an address outside guest RAM is translated, and         *)
(* refused, by every pop with room for one span.                           *)
(***************************************************************************)
C16_TranslationFailureFatal ==
  [][ PopStep =>
        /\ \A j \in 1 .. Len(res'.acc) :
             (/\ res'.acc[j][1] = "xlate"
              /\ hostmem_lookup(res'.acc[j][2], res'.acc[j][3]) = 0) =>
               /\ FatalPop
               /\ j = Len(res'.acc)
        /\ (/\ Pending /\ res'.cap >= 1
            /\ ~Has(desc[NextHead].flags, VRING_DESC_F_INDIRECT)
            /\ ~Translatable(desc[NextHead])) =>
             /\ FatalPop
             /\ res'.why = "map-buffer" ]_vars

\* the buffer of the second entry of an indirect table could not be
\* translated
C16_Witness ==
  /\ res.op = "pop" /\ res.why = "map-buffer" /\ broken /\ last_avail_idx = 0
  /\ Has(desc[0].flags, VRING_DESC_F_INDIRECT)
  /\ mem[1].addr = BadAddr
  /\ res.acc[Len(res.acc)] = <<"xlate", BadAddr, BufLen>>
  /\ res.acc[Len(res.acc) - 1] = <<"tbl", TblBase + SizeofDesc>>

\* a step that is a call of vring_setup, and one that maps the ring
SetupStep == res'.op = "setup"
SetupOk == SetupStep /\ res'.ret = 1

(***************************************************************************)
(* C17: a vring_setup that succeeds, from any state (never set up, ready   *)
(* with requests in flight, broken, torn down), leaves last_avail_idx = 0, *)
(* last_used_idx = 0, signalled_used_valid = false and broken = false,     *)
(* and the ring mapped.                                                    *)
(***************************************************************************)
C17_SetupResets ==
  [][ SetupOk =>
        /\ last_avail_idx' = 0 /\ last_used_idx' = 0
        /\ ~signalled_used_valid' /\ ~broken'
        /\ mapped' /\ popped' = <<>> ]_vars

\* the queue was set up again after requests were popped and completed,
\* one of them still in flight
C17_Witness ==
  /\ res.op = "setup" /\ res.ret = 1
  /\ last_avail_idx = 0 /\ last_used_idx = 0
  /\ used_idx >= 1 /\ avail_idx > used_idx

(***************************************************************************)
(* C18: a vring_setup whose ring region cannot be mapped returns false and *)
(* leaves the queue broken and unmapped; from then until a vring_setup     *)
(* succeeds the queue stays so, every vring_pop returns the error without  *)
(* an access to guest memory, and every vring_push changes nothing.        *)
(***************************************************************************)
C18_SetupFailureBroken ==
  [][ /\ (SetupStep /\ ~SetupOk) => (res'.ret = 0 /\ broken' /\ ~mapped')
      /\ (broken /\ ~mapped) =>
           /\ (~broken' \/ mapped') => SetupOk
           /\ PopStep => (res'.ret = -EFAULT /\ res'.acc = <<>>
                           /\ UNCHANGED <<engine, guestmem, hostmem>>)
           /\ PushStep => UNCHANGED <<engine, guestmem, hostmem>> ]_vars

\* a pop was refused on a queue that a failed setup had left broken: no
\* fatal pop can have broken it, the ring being empty after requests
C18_Witness ==
  /\ res.op = "pop" /\ res.ret = -EFAULT
  /\ broken /\ ~mapped
  /\ avail_idx = last_avail_idx /\ last_avail_idx >= 1

(***************************************************************************)
(* C19: after vring_teardown and before the next vring_setup that succeeds *)
(* the queue is inert: a pop or a push in that window is rejected or is a  *)
(* no-op, and makes no access to guest ring memory.                        *)
(***************************************************************************)
C19_InertAfterTeardown ==
  [][ (~mapped /\ (PopStep \/ PushStep)) =>
        /\ res'.acc = <<>>
        /\ UNCHANGED <<engine, guestmem, hostmem>> ]_vars

\* a step that is a call of vring_enable_notification
EnableStep == res'.op = "enable"

(***************************************************************************)
(* C20 as stated: the result of vring_enable_notification is true exactly  *)
(* when avail.idx differs from last_avail_idx at the call; a disable /     *)
(* enable pair with nothing submitted in between reports false.            *)
(***************************************************************************)
C20_EnableReportsNonEmpty ==
  [][ EnableStep => (res'.ret = 1 <=> avail_idx # last_avail_idx) ]_vars

(***************************************************************************)
(* C20 amended: the result of vring_enable_notification is true exactly    *)
(* when the ring is empty, avail.idx = last_avail_idx at the call, and     *)
(* false when requests are pending; a disable / enable pair on an empty    *)
(* ring with nothing submitted in between reports true.                    *)
(***************************************************************************)
C20_EnableReportsEmpty ==
  [][ EnableStep =>
        /\ res'.ret \in {0, 1}
        /\ res'.ret = 1 <=> avail_idx = last_avail_idx
        /\ (res.op = "disable" /\ avail_idx = last_avail_idx) => res'.ret = 1
    ]_vars

\* notifications were enabled right after they were disabled, on a ring
\* the backend had drained, and again with a request pending
C20_Witness ==
  /\ res.op = "enable" /\ res.ret = 0
  /\ avail_idx # last_avail_idx /\ last_avail_idx >= 1
  /\ ~broken /\ mapped

(***************************************************************************)
(* SpecSignal: the interrupt decision.  vring_should_notify and vring_push *)
(* over every combination of the two ring feature bits with the feature    *)
(* bits of the block device, a baseline signalled_used that lies level     *)
(* with last_used_idx, almost half the index space behind it or one short  *)
(* of a full lap behind it, and indices fresh or about to wrap.  The guest *)
(* publishes requests, rewrites avail.flags and moves its used-event.      *)
(***************************************************************************)
\* the feature words a guest acknowledges: the two ring features, each
\* negotiated or not, over no device feature, the segment-limit feature of
\* the block device (bit 2) or that and its geometry feature (bit 4)
FeatureWords ==
  {ring + empty + dev :
     ring \in {0, Shl1(VIRTIO_RING_F_EVENT_IDX)},
     empty \in {0, Shl1(VIRTIO_F_NOTIFY_ON_EMPTY)},
     dev \in {0, DeviceFeatures, DeviceFeatures + Shl1(4)}}

\* how far signalled_used lies behind last_used_idx where a run starts
SignalGaps == {0, 32766, USHRT_MAX}

\* vring_push keeps a baseline valid only up to 32767 entries behind; only
\* the event path of vring_should_notify ever sets one
GapKeepsValid(gap) == gap < 32768

InitSignal ==
  /\ num = QueueNum
  /\ broken = FALSE /\ mapped = TRUE
  /\ last_avail_idx = 0 /\ avail_idx = 0
  /\ last_used_idx \in UsedStarts
  /\ used_idx = last_used_idx
  /\ guest_features \in FeatureWords
  /\ IF Has(guest_features, VIRTIO_RING_F_EVENT_IDX)
     THEN \E gap \in SignalGaps :
            /\ signalled_used = U16(last_used_idx - gap)
            /\ signalled_used_valid \in
                 (IF GapKeepsValid(gap) THEN BOOLEAN ELSE {FALSE})
     ELSE signalled_used = 0 /\ signalled_used_valid = FALSE
  /\ used_flags = 0 /\ avail_event = 0
  /\ used_ring = [s \in Slots |-> [id |-> 0, len |-> 0]]
  /\ res = NoRes
  /\ popped = <<>> /\ published = <<>>
  /\ call = Idle /\ sbuf = {} /\ lbuf = NoLoad
  /\ gst = [pc |-> "idle", h |-> 0, seen |-> 0, used |-> 0,
            got |-> [id |-> 0, len |-> 0]]
  /\ pushed = <<>>
  /\ desc = LinearTable
  /\ mem = [k \in Cells |-> PlainDesc(QueueNum + k)]
  /\ avail_flags \in {0, VRING_AVAIL_F_NO_INTERRUPT}
  /\ used_event = 0
  /\ avail_ring = [s \in Slots |-> 0]

\* the guest moves its used-event next to the baseline, next to the used
\* index, or half the index space away
EventChoices ==
  {U16(x + d) : x \in {signalled_used, last_used_idx}, d \in {-1, 0, 1}}
    \cup {U16(last_used_idx + 32768)}

GuestSetUsedEvent(e) ==
  /\ UNCHANGED steps
  /\ used_event # e
  /\ used_event' = e
  /\ res' = GuestRes
  /\ UNCHANGED <<engine, guest_features, desc, mem, avail_flags, avail_idx,
                 avail_ring, hostmem, published, popped>>

\* the guest sets or clears the interrupt suppression bit of avail.flags
GuestSetAvailFlags(f) ==
  /\ UNCHANGED steps
  /\ avail_flags # f
  /\ avail_flags' = f
  /\ res' = GuestRes
  /\ UNCHANGED <<engine, guest_features, desc, mem, avail_idx, avail_ring,
                 used_event, hostmem, published, popped>>

NextSignal ==
  \/ Push(0, BufLen)
  \/ ShouldNotify
  \/ GuestPublish(0)
  \/ \E e \in EventChoices : GuestSetUsedEvent(e)
  \/ \E f \in {0, VRING_AVAIL_F_NO_INTERRUPT} : GuestSetAvailFlags(f)

SpecSignal == InitSignal /\ [][NextSignal]_vars

\* a step that is a call of vring_should_notify
NotifyStep == res'.op = "should_notify"

\* the notify-on-empty feature bit is set in guest_features
NotifyOnEmpty(features) == Has(features, Shl1(VIRTIO_F_NOTIFY_ON_EMPTY))

\* the empty-ring rule applies: the feature is negotiated and the ring empty
EmptyRule == NotifyOnEmpty(guest_features) /\ avail_idx = last_avail_idx

(***************************************************************************)
(* C21: with the event-index feature bit set in guest_features and         *)
(* signalled_used_valid false, the vring_should_notify that follows a      *)
(* vring_push returns true whatever used-event and avail.flags are, and    *)
(* sets signalled_used to last_used_idx and signalled_used_valid to true.  *)
(***************************************************************************)
C21_FirstNotifyForced ==
  [][ ( /\ NotifyStep /\ res.op = "push"
        /\ EventIdx(guest_features) /\ ~signalled_used_valid
        /\ ~EmptyRule )
      => /\ res'.ret = 1
         /\ signalled_used' = last_used_idx
         /\ signalled_used_valid' = TRUE ]_vars

\* event lies in the 16-bit window that starts at old and ends before new
InWindow(event, old, new) == U16(event - old) < U16(new - old)

\* event lies strictly between old and new in 16-bit arithmetic
StrictlyBetween(event, old, new) ==
  InWindow(event, old, new) /\ event # old

(***************************************************************************)
(* C22: in event-index mode with a valid baseline vring_should_notify      *)
(* returns true when used-event lies strictly between the old              *)
(* signalled_used and the new last_used_idx in 16-bit wraparound           *)
(* arithmetic, and false when used-event lies outside the window from the  *)
(* one to the other, also where the window straddles 65535 -> 0.           *)
(***************************************************************************)
C22_NotifyInWindow ==
  [][ ( /\ NotifyStep
        /\ EventIdx(guest_features) /\ signalled_used_valid
        /\ ~EmptyRule )
      => /\ StrictlyBetween(used_event, signalled_used, last_used_idx)
              => res'.ret = 1
         /\ ~InWindow(used_event, signalled_used, last_used_idx)
              => res'.ret = 0 ]_vars

(***************************************************************************)
(* C23: in plain mode, the event-index feature bit clear in guest_features *)
(* and the empty-ring rule not applying, vring_should_notify returns true  *)
(* exactly when avail.flags lacks VRING_AVAIL_F_NO_INTERRUPT, whatever     *)
(* signalled_used, signalled_used_valid and last_used_idx are.             *)
(***************************************************************************)
C23_PlainFollowsFlag ==
  [][ (NotifyStep /\ ~EventIdx(guest_features) /\ ~EmptyRule)
      => (res'.ret = 1 <=> ~Has(avail_flags, VRING_AVAIL_F_NO_INTERRUPT))
    ]_vars

(***************************************************************************)
(* C24: with the notify-on-empty feature bit set in guest_features and     *)
(* avail.idx = last_avail_idx, vring_should_notify returns true in plain   *)
(* and in event-index mode, whatever avail.flags and used-event say; with  *)
(* the bit clear an empty ring forces nothing: an event-index guest whose  *)
(* used-event lies outside the window of a valid baseline gets false.      *)
(***************************************************************************)
C24_EmptyRingNotifies ==
  [][ (NotifyStep /\ avail_idx = last_avail_idx)
      => /\ NotifyOnEmpty(guest_features) => res'.ret = 1
         /\ ( /\ ~NotifyOnEmpty(guest_features)
              /\ EventIdx(guest_features) /\ signalled_used_valid
              /\ ~InWindow(used_event, signalled_used, last_used_idx) )
              => res'.ret = 0 ]_vars

\* how far the used index the step leaves lies ahead of the baseline
GapAfter == U16(last_used_idx' - signalled_used)

\* the new index has advanced past the baseline by 1 .. 32767 entries
AdvancedPast(gap) == 1 <= gap /\ gap <= 32767

(***************************************************************************)
(* C25 as stated: a vring_push clears signalled_used_valid exactly when    *)
(* the new last_used_idx has advanced past signalled_used by at least one  *)
(* in wraparound-safe 16-bit arithmetic and leaves it unchanged otherwise; *)
(* it never sets the flag and never changes signalled_used.                *)
(***************************************************************************)
C25_ClearedOnAdvance ==
  [][ (PushStep /\ ~broken)
      => /\ signalled_used_valid' =
              (IF AdvancedPast(GapAfter) THEN FALSE ELSE signalled_used_valid)
         /\ signalled_used' = signalled_used ]_vars

(***************************************************************************)
(* C25 amended: a vring_push clears signalled_used_valid exactly when the  *)
(* new last_used_idx has not advanced past signalled_used in signed 16-bit *)
(* arithmetic, that is when it is level with signalled_used or 32768 to    *)
(* 65535 entries ahead of it modulo 2^16, and leaves the flag unchanged    *)
(* when it is 1 to 32767 entries ahead; it never sets the flag and never   *)
(* changes signalled_used.                                                 *)
(***************************************************************************)
C25_ClearedWhenStale ==
  [][ (PushStep /\ ~broken)
      => /\ signalled_used_valid' =
              (IF AdvancedPast(GapAfter) THEN signalled_used_valid ELSE FALSE)
         /\ signalled_used_valid' => signalled_used_valid
         /\ signalled_used' = signalled_used ]_vars

\* a push across the 16-bit wrap took the used index 32768 entries ahead of
\* the baseline, which is no longer valid
C25_Witness ==
  /\ res.op = "push" /\ ~broken
  /\ last_used_idx = 0 /\ signalled_used = 32768
  /\ ~signalled_used_valid

(***************************************************************************)
(* SpecOverwrite: the used ring under a guest that writes where only the   *)
(* engine should.  Completions are pushed for the heads in any order, the  *)
(* guest overwrites used.idx and a used-ring entry between them, and the   *)
(* queue is set up again.                                                  *)
(***************************************************************************)
\* what the guest writes over a used-ring entry: no head has this id
Junk == [id |-> QueueNum, len |-> 0]

GuestOverwriteUsed(v, s) ==
  /\ UNCHANGED steps
  /\ v # used_idx
  /\ used_idx' = v
  /\ used_ring' = [used_ring EXCEPT ![s] = Junk]
  /\ res' = GuestRes
  /\ UNCHANGED <<engine, guest_features, guestmem, used_flags, avail_event,
                 published, popped>>

NextOverwrite ==
  \/ \E head \in Slots, len \in Lens : Push(head, len)
  \/ \E v \in {0, USHRT_MAX}, s \in Slots : GuestOverwriteUsed(v, s)
  \/ Setup(TRUE)

SpecOverwrite == InitUsed /\ [][NextOverwrite]_vars

(***************************************************************************)
(* C26: the used index advances only through vring_push and by one: a      *)
(* push on a queue that is not broken leaves used.idx = last_used_idx, one *)
(* more than last_used_idx was, and writes the entry in slot               *)
(* last_used_idx mod num, both computed from the private last_used_idx     *)
(* whatever the guest wrote over used.idx and the used ring; last_used_idx *)
(* is the number of pushes since vring_setup, so the k-th push, for the    *)
(* heads in any order, lands in slot (k - 1) mod num.                      *)
(***************************************************************************)
C26_UsedIdxPrivate ==
  /\ [][ (PushStep /\ ~broken) =>
           /\ last_used_idx' = U16(last_used_idx + 1)
           /\ used_idx' = last_used_idx'
           /\ \E head \in Slots, n \in Lens :
                used_ring' = [used_ring EXCEPT ![last_used_idx % num] =
                                [id |-> head, len |-> n]] ]_vars
  /\ [][ (last_used_idx' # last_used_idx) =>
           \/ PushStep /\ last_used_idx' = U16(last_used_idx + 1)
           \/ SetupStep /\ last_used_idx' = 0 ]_vars
  /\ [][ (used_idx' # used_idx) => (PushStep \/ res'.op = "guest") ]_vars

\* a completion was pushed after the guest overwrote used.idx and an entry:
\* used.idx is the private index again, the overwritten entry is another's
C26_Witness ==
  /\ res.op = "push" /\ ~broken
  /\ last_used_idx > QueueNum /\ used_idx = last_used_idx
  /\ used_ring[last_used_idx % num] = Junk
  /\ used_ring[(last_used_idx - 1) % num].id \in Slots

\* the pending chain is one of direct descriptors up to one whose NEXT link
\* leaves the descriptor table
LinkOutside ==
  /\ Pending
  /\ HeadChain[Len(HeadChain)] = -1
  /\ \A k \in 1 .. (Len(HeadChain) - 1) :
       ~Has(desc[HeadChain[k]].flags, VRING_DESC_F_INDIRECT)
  /\ desc[HeadChain[Len(HeadChain) - 1]].next >= num

\* the ring holds a plausible request whose head is outside the table
HeadSilly ==
  /\ ~broken /\ mapped
  /\ avail_idx # last_avail_idx
  /\ U16(avail_idx - last_avail_idx) <= num
  /\ NextHead >= num

\* the descriptor-table indices a call read
DescReads(acc) == {acc[k][2] : k \in {j \in 1 .. Len(acc) : acc[j][1] = "desc"}}

HostSees(f, v) ==
  IF \E w \in sbuf : w.f = f THEN (CHOOSE w \in sbuf : w.f = f).val ELSE v

\* a store to field f enters the store buffer, over an earlier one to f
Stored(f, v) ==
  {w \in sbuf : w.f # f} \cup {[f |-> f, slot |-> 0, val |-> v]}

InitWake ==
  /\ num = QueueNum
  /\ last_avail_idx = 0 /\ last_used_idx = 0
  /\ signalled_used = 0 /\ signalled_used_valid = FALSE
  /\ broken = FALSE /\ mapped = TRUE
  /\ used_flags = 0 /\ used_idx = 0 /\ avail_event = 0
  /\ used_ring = [s \in Slots |-> [id |-> 0, len |-> 0]]
  /\ res = NoRes
  /\ popped = <<>> /\ published = <<>>
  /\ sbuf = {} /\ lbuf = NoLoad /\ pushed = <<>>
  /\ guest_features \in {0, Shl1(VIRTIO_RING_F_EVENT_IDX)}
  /\ desc = LinearTable
  /\ mem = [k \in Cells |-> PlainDesc(QueueNum + k)]
  /\ avail_flags = 0 /\ used_event = 0
  /\ avail_idx = 0
  /\ avail_ring = [s \in Slots |-> 0]
  /\ call = [Idle EXCEPT !.pc = "sleep"]
  /\ gst = [pc |-> "idle", h |-> 0, seen |-> 0, used |-> 0,
            got |-> [id |-> 0, len |-> 0], kick |-> FALSE]

\* the backend takes the guest's notification
HostWake ==
  /\ call.pc = "sleep" /\ gst.kick
  /\ gst' = [gst EXCEPT !.kick = FALSE]
  /\ call' = [call EXCEPT !.pc = "disable"]
  /\ res' = StepRes
  /\ UNCHANGED <<engine, guest_features, guestmem, hostmem, published, popped,
                 sbuf, lbuf, pushed>>

\* vring_disable_notification
WakeDisable ==
  /\ call.pc = "disable"
  /\ sbuf' = IF ~EventIdx(guest_features)
             THEN Stored("flags", BitOr(HostSees("flags", used_flags),
                                        VRING_USED_F_NO_NOTIFY))
             ELSE sbuf
  /\ call' = [call EXCEPT !.pc = "pop"]
  /\ res' = [NoRes EXCEPT !.op = "disable", !.ret = 0]
  /\ UNCHANGED <<engine, guest_features, guestmem, hostmem, published, popped,
                 lbuf, gst, pushed>>

\* vring_pop; a call that gets past the empty test runs mb(), and its
\* avail-event store enters the store buffer
WakePop ==
  /\ call.pc = "pop"
  /\ LET V == [View EXCEPT !.avail_event = HostSees("event", avail_event)]
         r == vring_pop(V, QueueNum)
     IN  /\ r.why \notin {"broken", "avail-idx", "empty"} => FenceDone(sbuf)
         /\ PopReturn([r EXCEPT !.avail_event = avail_event], QueueNum)
         /\ sbuf' = IF r.avail_event # V.avail_event
                    THEN Stored("event", r.avail_event) ELSE sbuf
         /\ call' = [call EXCEPT !.pc = IF r.ret = -EAGAIN THEN "enable"
                                        ELSE IF r.ret >= 0 THEN "pop"
                                        ELSE "stopped"]
  /\ UNCHANGED <<num, last_used_idx, signalled_used, signalled_used_valid, mapped,
                 guest_features, guestmem, used_flags, used_idx, used_ring,
                 published, lbuf, gst, pushed>>

\* vring_enable_notification up to its mb(): the store to avail-event of
\* the avail.idx it reads, or the store that clears NO_NOTIFY
EnableStore ==
  /\ call.pc = "enable"
  /\ sbuf' = IF EventIdx(guest_features)
             THEN Stored("event", avail_idx)
             ELSE Stored("flags", BitClear(HostSees("flags", used_flags),
                                           VRING_USED_F_NO_NOTIFY))
  /\ call' = [call EXCEPT !.pc = "enable_fence"]
  /\ res' = StepRes
  /\ UNCHANGED <<engine, guest_features, guestmem, hostmem, published, popped,
                 lbuf, gst, pushed>>

\* the mb() of vring_enable_notification
EnableFence ==
  /\ call.pc = "enable_fence"
  /\ FenceDone(sbuf)
  /\ call' = [call EXCEPT !.pc = "enable_read"]
  /\ res' = StepRes
  /\ UNCHANGED <<engine, guest_features, guestmem, hostmem, published, popped,
                 sbuf, lbuf, gst, pushed>>

\* return !vring_more_avail(vring); the backend sleeps on true and starts
\* over on false
EnableRead ==
  /\ call.pc = "enable_read"
  /\ LET empty == EnableResult(vring_more_avail)
     IN  /\ res' = [NoRes EXCEPT !.op = "enable",
                                 !.ret = IF empty THEN 1 ELSE 0]
         /\ call' = [call EXCEPT !.pc = IF empty THEN "sleep" ELSE "disable"]
  /\ UNCHANGED <<engine, guest_features, guestmem, hostmem, published, popped,
                 sbuf, lbuf, gst, pushed>>

\* a store of the backend to used.flags or avail-event becomes visible
DrainNotify ==
  \E w \in sbuf :
    /\ sbuf' = sbuf \ {w}
    /\ used_flags' = IF w.f = "flags" THEN w.val ELSE used_flags
    /\ avail_event' = IF w.f = "event" THEN w.val ELSE avail_event
    /\ res' = StepRes
    /\ UNCHANGED <<engine, guest_features, guestmem, used_idx, used_ring,
                   published, popped, call, lbuf, gst, pushed>>

\* after its write barrier the guest advances avail.idx
GuestAdvance ==
  /\ gst.pc = "wrote"
  /\ avail_idx' = U16(avail_idx + 1)
  /\ published' = Append(published, gst.h)
  /\ gst' = [gst EXCEPT !.pc = "decide"]
  /\ res' = GuestRes
  /\ UNCHANGED <<engine, guest_features, desc, mem, avail_flags, avail_ring,
                 used_event, hostmem, popped, call, sbuf, lbuf, pushed>>

\* what the guest decides after its fence, from what it reads
GuestNotifies ==
  IF EventIdx(guest_features)
  THEN vring_need_event(avail_event, avail_idx, U16(avail_idx - 1))
  ELSE ~Has(used_flags, VRING_USED_F_NO_NOTIFY)

GuestDecide ==
  /\ gst.pc = "decide"
  /\ gst' = [gst EXCEPT !.pc = "idle", !.kick = @ \/ GuestNotifies]
  /\ res' = [GuestRes EXCEPT !.ret = IF GuestNotifies THEN 1 ELSE 0]
  /\ UNCHANGED <<engine, guest_features, guestmem, hostmem, published, popped,
                 call, sbuf, lbuf, pushed>>

NextWake ==
  \/ HostWake
  \/ WakeDisable
  \/ WakePop
  \/ EnableStore
  \/ EnableFence
  \/ EnableRead
  \/ DrainNotify
  \/ \E h \in {0, QueueNum} : GuestWriteSlot(h)
  \/ GuestAdvance
  \/ GuestDecide

SpecWake == InitWake /\ [][NextWake]_vars

\* a request is pending, the guest has finished submitting and sent no
\* notification, and the backend sleeps on an enable that reported empty
LostWakeup ==
  /\ call.pc = "sleep" /\ ~broken
  /\ gst.pc = "idle" /\ ~gst.kick
  /\ avail_idx # last_avail_idx

(***************************************************************************)
(* C28: no wakeup is lost across vring_disable_notification and            *)
(* vring_enable_notification.  In every interleaving of the backend (pop   *)
(* until empty, then enable) with the guest (write the slot, advance       *)
(* avail.idx, fence, decide from NO_NOTIFY or from avail-event), an enable *)
(* that reports the ring empty while a request is pending is followed or   *)
(* preceded by a notification of the guest: no state has a request         *)
(* pending, the backend told the ring is empty and asleep, and the guest   *)
(* done without notifying.                                                 *)
(***************************************************************************)
C28_NoLostWakeup == [] ~LostWakeup

\* after a pass of the backend that popped a request and enabled
\* notifications again, the guest submitted another request and notified:
\* the backend sleeps with the request pending and the notification on its way
C28_Witness ==
  /\ call.pc = "sleep" /\ ~broken
  /\ Len(popped) >= 1 /\ avail_idx # last_avail_idx
  /\ gst.pc = "idle" /\ gst.kick
  /\ res.op = "guest" /\ res.ret = 1

(***************************************************************************)
(* SpecFlags: vring_disable_notification and vring_enable_notification on  *)
(* a ring in use.  The guest publishes requests, the backend pops them,    *)
(* and used.flags holds any value: the guest can write the used ring.      *)
(***************************************************************************)
GuestOverwriteFlags(f) ==
  /\ UNCHANGED steps
  /\ used_flags # f
  /\ used_flags' = f
  /\ res' = GuestRes
  /\ UNCHANGED <<engine, guest_features, guestmem, used_idx, used_ring,
                 avail_event, published, popped>>

NextFlags ==
  \/ DisableNotification
  \/ EnableNotification
  \/ GuestPublish(0)
  \/ Pop(QueueNum)
  \/ \E f \in 0 .. 3 : GuestOverwriteFlags(f)

SpecFlags == InitAvail /\ [][NextFlags]_vars

\* used.flags with the NO_NOTIFY bit set, and with it clear
WithNoNotify(f) == 2 * (f \div 2) + 1
WithoutNoNotify(f) == 2 * (f \div 2)

(***************************************************************************)
(* C29: without event-index vring_disable_notification sets and            *)
(* vring_enable_notification clears the NO_NOTIFY bit of used.flags and    *)
(* nothing else (the other bits stay, a second call changes nothing); with *)
(* event-index disable writes nothing and enable writes the guest's        *)
(* current avail.idx into avail-event and leaves used.flags alone.         *)
(* Neither call changes last_avail_idx, last_used_idx, signalled_used,     *)
(* signalled_used_valid or broken, nor used.idx or a used-ring entry.      *)
(***************************************************************************)
C29_NotificationFrame ==
  [][ /\ res'.op = "disable" =>
           /\ IF EventIdx(guest_features)
              THEN UNCHANGED <<used_flags, avail_event>>
              ELSE /\ used_flags' = WithNoNotify(used_flags)
                   /\ Has(used_flags, VRING_USED_F_NO_NOTIFY) => UNCHANGED used_flags
                   /\ UNCHANGED avail_event
           /\ UNCHANGED <<engine, guestmem, used_idx, used_ring>>
      /\ res'.op = "enable" =>
           /\ IF EventIdx(guest_features)
              THEN avail_event' = avail_idx /\ UNCHANGED used_flags
              ELSE /\ used_flags' = WithoutNoNotify(used_flags)
                   /\ ~Has(used_flags, VRING_USED_F_NO_NOTIFY) => UNCHANGED used_flags
                   /\ UNCHANGED avail_event
           /\ UNCHANGED <<engine, guestmem, used_idx, used_ring>> ]_vars

\* without event-index, notifications were enabled on a ring with a request
\* popped: NO_NOTIFY is clear and the other bit of used.flags still set
C29_Witness ==
  /\ res.op = "enable" /\ ~EventIdx(guest_features)
  /\ used_flags = 2 /\ last_avail_idx >= 1
  /\ ~broken /\ mapped

(***************************************************************************)
(* C30: vring_pop reads avail.idx once per call: with event-index a        *)
(* successful pop leaves in avail-event the value of that one read, also   *)
(* when the guest advances avail.idx during the call; without event-index  *)
(* a pop writes nothing the guest can see.                                 *)
(***************************************************************************)
C30_EventFromSingleRead ==
  [][ (PopStep /\ call.pc = "pop_walk") =>
        /\ (EventIdx(guest_features) /\ res'.ret >= 0) =>
              avail_event' = call.avail
        /\ ~EventIdx(guest_features) => UNCHANGED hostmem ]_vars

(***************************************************************************)
(* C31: the engine never writes the guest-owned regions.  Under every      *)
(* sequence of vring_setup, vring_pop, vring_push, the notification calls  *)
(* and vring_teardown, a step of the engine leaves the descriptor table,   *)
(* the indirect tables, avail.flags, avail.idx, the avail ring and         *)
(* used-event as they were: what it writes of guest-visible memory is      *)
(* among used.flags, used.idx, the used ring and avail-event.              *)
(***************************************************************************)
C31_GuestRegionsReadOnly ==
  [][ res'.op # "guest" => UNCHANGED guestmem ]_vars

\* the queue was torn down after a pop, a push and a disable had written
\* their part of the used ring
C31_Witness ==
  /\ res.op = "teardown"
  /\ last_avail_idx >= 1 /\ used_idx >= 1
  /\ used_flags = VRING_USED_F_NO_NOTIFY
  /\ used_ring[0].len = BufLen

(***************************************************************************)
(* SpecRewrite: vring_pop taken apart into the iterations of its two       *)
(* loops, with a guest that rewrites the descriptor table and the cells of *)
(* the indirect table between any two of them.  call holds the locals of   *)
(* the call in progress: the head, the capacity, the avail-event value     *)
(* written, the walk state w and the number of iterations completed; in    *)
(* get_indirect also the copy of the indirect descriptor (vring_pop passes *)
(* the address of its local copy), the loop state g and the iterations of  *)
(* that loop completed.                                                    *)
(***************************************************************************)
\* what the guest writes into slot i of the descriptor table: direct
\* descriptors linked to any slot or to themselves, indirect ones over a
\* table of 1 or MemCells entries
RewriteChoices(i) ==
  {Desc(BufAddr(i), BufLen, VRING_DESC_F_NEXT, n) : n \in Slots}
  \cup {Desc(BufAddr(i), BufLen, VRING_DESC_F_WRITE, 0),
        Desc(TblBase, SizeofDesc, VRING_DESC_F_INDIRECT, 0),
        Desc(TblBase, SizeofDesc * MemCells,
             VRING_DESC_F_INDIRECT + VRING_DESC_F_NEXT, (i + 1) % QueueNum)}

\* the capacities the backend walks with
RewriteCaps == {1, QueueNum + MemCells - 1}

\* the guest has a request the engine has not consumed or refused for good
RequestPending == ~broken /\ avail_idx # last_avail_idx

InitRewrite ==
  /\ AfterSetup
  /\ guest_features = 0
  /\ desc = LinearTable
  /\ mem = [k \in Cells |-> Desc(BufAddr(QueueNum + k), BufLen,
                                 VRING_DESC_F_NEXT, k + 1)]
  /\ avail_flags = 0 /\ used_event = 0
  /\ avail_idx = 1
  /\ avail_ring = [s \in Slots |-> 0]
  /\ published = <<0>>

GuestRewriteDesc(i, d) ==
  /\ RequestPending
  /\ desc[i] # d
  /\ desc' = [desc EXCEPT ![i] = d]
  /\ res' = GuestRes
  /\ UNCHANGED <<engine, guest_features, mem, avail_flags, avail_idx,
                 avail_ring, used_event, hostmem, published, popped, steps>>

\* the table cells the guest rewrites: the first and the last
RewriteCells == {0, MemCells - 1}

\* the guest sets or clears the NEXT flag of a table cell
GuestRewriteCell(k, f) ==
  /\ RequestPending
  /\ mem[k].flags # f
  /\ mem' = [mem EXCEPT ![k].flags = f]
  /\ res' = GuestRes
  /\ UNCHANGED <<engine, guest_features, desc, avail_flags, avail_idx,
                 avail_ring, used_event, hostmem, published, popped, steps>>

\* the walk of vring_pop starts: the part of the call before the loop
PopReachesLoop(V) ==
  /\ ~V.broken
  /\ ~Implausible(V.avail_idx, V.last_avail_idx, V.num)
  /\ ~AvailEmpty(V.avail_idx, V.last_avail_idx)
  /\ ~HeadOutside(V.avail_ring[V.last_avail_idx % V.num], V.num)

\* the return of the call in progress
WalkReturn(r) ==
  /\ PopReturn(r, call.cap)
  /\ call' = Idle

\* vring_pop up to its do-while loop
WalkBegin(cap) ==
  /\ call.pc = "idle"
  /\ broken \/ mapped
  /\ IF PopReachesLoop(View)
     THEN LET slot == last_avail_idx % num
              head == avail_ring[slot]
              ev   == IF EventIdx(guest_features) THEN avail_idx
                      ELSE avail_event
          IN  /\ avail_event' = ev
              /\ call' = [pc |-> "walk", head |-> head, cap |-> cap, ev |-> ev,
                          w |-> WalkStart(head, cap,
                                  <<<<"avail_idx">>, <<"avail_ring", slot>>>>),
                          iters |-> 0, ind |-> ZeroDesc, g |-> <<>>,
                          titers |-> 0]
              /\ res' = StepRes
              /\ UNCHANGED <<broken, last_avail_idx, popped>>
     ELSE /\ PopReturn(vring_pop(View, cap), cap)
          /\ UNCHANGED call
  /\ UNCHANGED <<num, last_used_idx, signalled_used, signalled_used_valid,
                 mapped, guest_features, guestmem, used_flags, used_idx,
                 used_ring, published, sbuf, lbuf, gst, pushed>>

\* the iteration of vring_pop's loop enters the loop of get_indirect
EntersTable(w, d) ==
  /\ w.i < num
  /\ ~LoopLimit(w.found + 1, num)
  /\ Has(d.flags, VRING_DESC_F_INDIRECT)
  /\ ~Misaligned(d.len)
  /\ d.len \div SizeofDesc <= USHRT_MAX + 1

\* one iteration of the loop of vring_pop, up to the loop of get_indirect
\* when the descriptor it reads is an indirect one
WalkIter ==
  /\ call.pc = "walk"
  /\ LET d == desc[call.w.i]
         s == PopIter(View, call.head, call.cap, call.ev, call.w)
     IN  IF EntersTable(call.w, d)
         THEN /\ call' = [call EXCEPT !.pc = "table", !.ind = d,
                                      !.g = IndirectStart(call.w),
                                      !.titers = 0]
              /\ res' = StepRes
              /\ UNCHANGED <<broken, last_avail_idx, avail_event, popped>>
         ELSE IF s.more
         THEN /\ call' = [call EXCEPT !.w = s.w, !.iters = @ + 1]
              /\ res' = StepRes
              /\ UNCHANGED <<broken, last_avail_idx, avail_event, popped>>
         ELSE WalkReturn(s.r)
  /\ UNCHANGED <<num, last_used_idx, signalled_used, signalled_used_valid,
                 mapped, guest_features, guestmem, used_flags, used_idx,
                 used_ring, published, sbuf, lbuf, gst, pushed>>

\* one iteration of the loop of get_indirect; the last one returns to the
\* iteration of vring_pop that called it, which goes on or returns
TableIter ==
  /\ call.pc = "table"
  /\ LET s == GIIter(mem, call.ind, call.cap, call.g)
         t == AfterIndirect(View, call.head, call.ev, call.w, call.ind, s.r)
     IN  IF s.more
         THEN /\ call' = [call EXCEPT !.g = s.w, !.titers = @ + 1]
              /\ res' = StepRes
              /\ UNCHANGED <<broken, last_avail_idx, avail_event, popped>>
         ELSE IF t.more
         THEN /\ call' = [call EXCEPT !.pc = "walk", !.w = t.w,
                                      !.iters = @ + 1]
              /\ res' = StepRes
              /\ UNCHANGED <<broken, last_avail_idx, avail_event, popped>>
         ELSE WalkReturn(t.r)
  /\ UNCHANGED <<num, last_used_idx, signalled_used, signalled_used_valid,
                 mapped, guest_features, guestmem, used_flags, used_idx,
                 used_ring, published, sbuf, lbuf, gst, pushed>>

NextRewrite ==
  \/ \E cap \in RewriteCaps : WalkBegin(cap)
  \/ WalkIter
  \/ TableIter
  \/ \E i \in Slots : \E d \in RewriteChoices(i) : GuestRewriteDesc(i, d)
  \/ \E k \in RewriteCells : \E f \in {0, VRING_DESC_F_NEXT} :
       GuestRewriteCell(k, f)

\* the backend thread is scheduled: a call in progress takes its next step
SpecRewrite ==
  /\ InitRewrite /\ [][NextRewrite]_vars
  /\ WF_vars(WalkIter) /\ WF_vars(TableIter)

\* the loops of the call in progress are within their bounds: the walk has
\* completed at most num iterations that went on to another one, the table
\* walk at most count = len / 16 of them
WalkBounded ==
  /\ call.pc \in {"walk", "table"} => call.iters <= num
  /\ call.pc = "table" => call.titers <= call.ind.len \div SizeofDesc

\* what a vring_pop call returned: a head, Empty, NeedMoreCapacity or fatal
PopOutcome ==
  res.op = "pop" =>
    \/ res.ret \in Slots /\ res.why = "ok"
    \/ res.ret = -EAGAIN /\ res.why = "empty"
    \/ res.ret = -ENOBUFS /\ res.why = "nobufs"
    \/ res.ret = -EFAULT /\ broken

\* C32: every vring_pop call terminates whatever the guest memory holds and
\* however the guest rewrites descriptors during the walk: the direct walk
\* makes at most num + 1 iterations, each walk of an indirect table at most
\* count + 1 (count = len / 16), and the call has then returned a head,
\* -EAGAIN, -ENOBUFS or -EFAULT.
C32_PopTerminates ==
  /\ [] WalkBounded
  /\ [] PopOutcome
  /\ (call.pc # "idle") ~> (call.pc = "idle")

\* the walk is in its last table iteration, at both bounds, of a descriptor
\* the guest has meanwhile rewritten
C32_Witness ==
  /\ call.pc = "table"
  /\ call.iters = QueueNum - 1
  /\ call.titers = MemCells
  /\ \A i \in Slots : ~Has(desc[i].flags, VRING_DESC_F_INDIRECT)

\* the two ways vring_should_notify answers once the empty-ring rule is
\* past: from the baseline and the used-event field, recording the new
\* baseline, or from avail.flags, leaving the baseline alone
EventPathTaken ==
  /\ signalled_used_valid'
  /\ signalled_used' = last_used_idx
PlainPathTaken ==
  /\ UNCHANGED <<signalled_used, signalled_used_valid>>
  /\ res'.ret = IF Has(avail_flags, VRING_AVAIL_F_NO_INTERRUPT) THEN 0 ELSE 1

\* C33: vring_should_notify decides between its two modes by the predicate
\* the other operations use, feature bit VIRTIO_RING_F_EVENT_IDX set: with
\* requests pending in the ring (the empty-ring rule out of the way) it
\* answers from signalled_used and the used-event field exactly when
\* vring_pop and vring_enable_notification publish the avail-event field.
C33_SamePredicate ==
  [][ NotifyStep /\ avail_idx # last_avail_idx =>
        IF EventIdx(guest_features) THEN EventPathTaken ELSE PlainPathTaken
    ]_vars

(***************************************************************************)
(* SpecBatch: a backend that completes requests in batches: it pushes one  *)
(* or more completions, then asks vring_should_notify, and so on.  call    *)
(* holds the value of used.idx at the start of the batch and the number of *)
(* pushes made in it.  The guest writes its used-event field between       *)
(* batches, and avail.flags and the avail ring whenever it likes.          *)
(***************************************************************************)
InitBatch ==
  /\ InitSignal
  /\ signalled_used_valid => signalled_used = last_used_idx

BatchOld == IF call.pc = "batch" THEN call.old ELSE last_used_idx
BatchLen == IF call.pc = "batch" THEN call.n ELSE 0

BatchPush ==
  /\ vring_push(0, BufLen)
  /\ call' = [pc |-> "batch", old |-> BatchOld, n |-> BatchLen + 1]
  /\ UNCHANGED <<sbuf, lbuf, gst, pushed>>

BatchNotify ==
  /\ BatchLen >= 1
  /\ vring_should_notify
  /\ call' = Idle
  /\ UNCHANGED <<sbuf, lbuf, gst, pushed>>

BatchGuestEvent(e) ==
  /\ BatchLen = 0
  /\ GuestSetUsedEvent(e)

NextBatch ==
  \/ BatchPush
  \/ BatchNotify
  \/ GuestPublish(0)
  \/ \E e \in EventChoices : BatchGuestEvent(e)
  \/ \E f \in {0, VRING_AVAIL_F_NO_INTERRUPT} : GuestSetAvailFlags(f)

SpecBatch == InitBatch /\ [][NextBatch]_vars

\* used.idx went from old to new past the used-event value e:
\* old <= e < new on the 16-bit circle
CrossedEvent(old, e, new) == U16(e - old) < U16(new - old)

\* C34: in event-index mode, with vring_should_notify called after every
\* batch of pushes and the used-event value e unchanged since the batch
\* began, the call that follows a batch in which used.idx advanced from a
\* value <= e to a value > e returns true.
C34_NoMissedInterrupt ==
  [][ NotifyStep /\ EventIdx(guest_features) /\ BatchLen >= 1
        /\ CrossedEvent(BatchOld, used_event, last_used_idx)
      => res'.ret = 1 ]_vars

\* the pending chain holds a direct-table descriptor with INDIRECT and NEXT
IndirectThenNext ==
  \E k \in 1 .. Len(HeadChain) :
    /\ HeadChain[k] # -1
    /\ Has(HeadDescs[k].flags, VRING_DESC_F_INDIRECT)
    /\ Has(HeadDescs[k].flags, VRING_DESC_F_NEXT)

\* how many times the walk read slot i of the descriptor table
DescVisits(acc, i) == Cardinality({j \in 1 .. Len(acc) : acc[j] = <<"desc", i>>})

\* C35: a well-formed chain with a direct-table descriptor that has both
\* INDIRECT and NEXT is popped successfully by a caller with room for it:
\* every descriptor of the direct table is read at most once (so the table
\* is resolved once and the walk goes on at the descriptor's next), and the
\* iovec array holds the spans of the table followed by those of the
\* following descriptors, each at its own position.
C35_IndirectThenNextPopped ==
  [][ (PopStep /\ WellFormedChain /\ IndirectThenNext
         /\ res'.cap >= Len(HeadFlat)) =>
        /\ res'.ret = NextHead
        /\ \A i \in Slots : DescVisits(res'.acc, i) <= 1
        /\ IovIs(res'.iov, SpansOf(HeadFlat)) ]_vars

\* the j-th access of acc is made for a table entry: its translation or the
\* copy of the entry
TableAccess(acc, j) ==
  \/ acc[j][1] = "tbl"
  \/ acc[j][1] = "xlate" /\ acc[j][3] = SizeofDesc

\* the direct-table slot whose indirect descriptor the j-th access resolves:
\* the last slot read before it
SlotBefore(acc, j) ==
  acc[CHOOSE k \in 1 .. (j - 1) :
        /\ acc[k][1] = "desc"
        /\ \A l \in (k + 1) .. (j - 1) : acc[l][1] # "desc"][2]

\* C36: get_indirect translates and copies only entries inside the table of
\* the indirect descriptor it resolves: every address it asks hostmem for,
\* or copies a descriptor from, is below addr + len, also when every entry
\* has NEXT and when len = 0.
C36_TableReadsInside ==
  [][ PopStep =>
        \A j \in 1 .. Len(res'.acc) :
          TableAccess(res'.acc, j) =>
            LET d == desc[SlotBefore(res'.acc, j)]
            IN  res'.acc[j][2] + SizeofDesc <= d.addr + d.len ]_vars

\* the table entries the walk copied, as indices into the table of the
\* indirect descriptor x, in the order of the copies
RECURSIVE EntriesRead(_, _)
EntriesRead(acc, x) ==
  IF acc = <<>> THEN <<>>
  ELSE IF Head(acc)[1] = "tbl"
       THEN <<(Head(acc)[2] - x.addr) \div SizeofDesc>> \o EntriesRead(Tail(acc), x)
       ELSE EntriesRead(Tail(acc), x)

\* the indices of the entries on the chain of the table of x: entry 0, then
\* the entry named by the next field of each entry that has NEXT
RECURSIVE LinkOrder(_, _, _, _)
LinkOrder(m, x, k, fuel) ==
  LET e == MemDesc(m, x.addr + k * SizeofDesc)
  IN  IF fuel = 0 THEN <<>>
      ELSE IF Has(e.flags, VRING_DESC_F_NEXT)
           THEN <<k>> \o LinkOrder(m, x, e.next, fuel - 1)
           ELSE <<k>>

\* C37: within an indirect table the walk follows the chain links.  For a
\* well-formed chain whose head is an indirect descriptor and a caller with
\* room for it, vring_pop succeeds, the entries it copies are entry 0 and
\* then the entry named by next of each entry with NEXT, and the spans are
\* those of the chain in link order; entries off the chain are not
\* resolved.
C37_LinkOrder ==
  [][ (PopStep /\ WellFormedChain /\ Has(desc[NextHead].flags, VRING_DESC_F_INDIRECT)
         /\ res'.cap >= Len(HeadFlat)) =>
        /\ res'.ret = NextHead
        /\ EntriesRead(res'.acc, desc[NextHead])
             = LinkOrder(mem, desc[NextHead], 0, MemCells)
        /\ IovIs(res'.iov, SpansOf(HeadFlat)) ]_vars

\* the pending chain is well formed and made of direct descriptors followed
\* by one indirect descriptor, the last of the chain, whose table entries
\* are linked in table order
FinalIndirect ==
  /\ WellFormedChain
  /\ LET n == Len(HeadChain)
         x == HeadDescs[n]
         c == x.len \div SizeofDesc
     IN  /\ Has(x.flags, VRING_DESC_F_INDIRECT)
         /\ ~Has(x.flags, VRING_DESC_F_NEXT)
         /\ \A k \in 1 .. (n - 1) : ~Has(HeadDescs[k].flags, VRING_DESC_F_INDIRECT)
         /\ \E len \in 1 .. c :
              LinkOrder(mem, x, 0, c + 1) = [k \in 1 .. len |-> k - 1]

\* the iovec entries a call wrote
Populated(iov) == {k \in 1 .. Len(iov) : iov[k].set}

\* C38: for a well-formed chain of zero or more direct descriptors followed
\* by one final indirect descriptor whose entries are chained in table
\* order, a vring_pop with room for the chain succeeds with the direct
\* spans followed by the table's spans in consecutive iovec positions;
\* out_num + in_num is the number of iovec entries populated, the first
\* out_num of them are the device-readable spans, and no call writes an
\* entry beyond the caller's capacity.
C38_DirectThenIndirect ==
  [][ (PopStep /\ FinalIndirect) =>
        /\ Len(res'.iov) = res'.cap
        /\ Cardinality(Populated(res'.iov)) <= res'.cap
        /\ res'.cap >= Len(HeadFlat) => res'.ret = NextHead
        /\ res'.ret >= 0 =>
             /\ IovIs(res'.iov, SpansOf(HeadFlat))
             /\ Populated(res'.iov) = 1 .. Len(HeadFlat)
             /\ res'.out_num + res'.in_num = Len(HeadFlat)
             /\ \A k \in 1 .. Len(HeadFlat) :
                  k <= res'.out_num <=> ~IsWrite(HeadFlat[k]) ]_vars

\* a pop filled the caller's array to its capacity with a direct span
\* followed by the spans of a full table, device-writable ones last
C38_Witness ==
  /\ res.op = "pop" /\ res.ret = 0
  /\ ~Has(desc[0].flags, VRING_DESC_F_INDIRECT)
  /\ Has(desc[1].flags, VRING_DESC_F_INDIRECT)
  /\ res.out_num >= 2 /\ res.in_num >= 1
  /\ res.out_num + res.in_num = 1 + MemCells
  /\ res.cap = 1 + MemCells

(***************************************************************************)
(* SpecRound: both rings where the 16-bit indices wrap.  From the state of *)
(* SpecWrap the guest publishes, the backend pops and pushes completions.  *)
(***************************************************************************)
NextRound ==
  \/ NextAvail
  \/ \E head \in Slots : Push(head, BufLen)

SpecRound == InitWrap /\ [][NextRound]_vars

\* num is a power of two
PowerOfTwo(n) == \E k \in 0 .. 15 : n = Shl1(k)

\* the ring slot after slot s
SlotAfter(s) == (s + 1) % num

\* C39: with num a power of two, vring_pop and vring_push go on correctly
\* where the indices wrap from 65535 to 0.  A pop is fatal exactly when
\* avail.idx is more than num ahead of last_avail_idx modulo 2^16 and
\* reports an empty ring exactly when the two are equal; otherwise it reads
\* the slot last_avail_idx mod num, and on success the next slot is the one
\* after it and the heads come out in the order they were published.  A
\* push writes the slot last_used_idx mod num, the next slot is the one
\* after it, and used.idx equals last_used_idx, both modulo 2^16.
C39_WrapAround ==
  /\ [](used_idx = last_used_idx /\ last_used_idx \in 0 .. USHRT_MAX
          /\ last_avail_idx \in 0 .. USHRT_MAX)
  /\ [](PowerOfTwo(num) => popped = SubSeq(published, 1, Len(popped)))
  /\ [][ (PowerOfTwo(num) /\ PopStep /\ ~broken) =>
           IF U16(avail_idx - last_avail_idx) > num THEN FatalPop
           ELSE IF avail_idx = last_avail_idx
           THEN res'.ret = -EAGAIN /\ last_avail_idx' = last_avail_idx
           ELSE /\ res'.ret # -EAGAIN
                /\ res'.acc[2] = <<"avail_ring", last_avail_idx % num>>
                /\ res'.ret >= 0 =>
                     /\ res'.ret = avail_ring[last_avail_idx % num]
                     /\ last_avail_idx' = U16(last_avail_idx + 1)
                     /\ last_avail_idx' % num = SlotAfter(last_avail_idx % num)
     ]_vars
  /\ [][ (PowerOfTwo(num) /\ PushStep /\ ~broken) =>
           /\ \E head \in Slots :
                used_ring' = [used_ring EXCEPT ![last_used_idx % num] =
                                [id |-> head, len |-> BufLen]]
           /\ last_used_idx' = U16(last_used_idx + 1)
           /\ last_used_idx' % num = SlotAfter(last_used_idx % num)
           /\ used_idx' = last_used_idx'
     ]_vars

\* both rings have gone round past 65535: three requests popped and three
\* completions pushed since the indices stood at 65534
C39_Witness ==
  /\ ~broken
  /\ last_avail_idx = 1 /\ Len(popped) = 3
  /\ last_used_idx = 1 /\ used_idx = 1
  /\ res.op = "push"

====
